---- MODULE Spec2Model ----
(***************************************************************************)
(* A model of the Plex provider of anibridge: the client/session layer of  *)
(* client.py (identity resolution, the continue-watching and watchlist     *)
(* caches) and the history reconciliation and webhook filtering of         *)
(* library.py.                                                             *)
(*                                                                         *)
(* Optional values (Python's None) are sequences of length at most one:    *)
(* None is <<>> and Some(x) is <<x>>.  Python strings that the code        *)
(* lower-cases or strips are sequences of one-character strings, so that   *)
(* str.lower() and str.strip() are computed and not assumed.               *)
(***************************************************************************)
EXTENDS Integers, Sequences, FiniteSets, TLC

VARIABLES
    cfg_url,         \* PlexClient._url: the server URL of the config
    cfg_user,        \* PlexClient._user: the requested user string of the config
    section_filter,  \* PlexClient._section_filter: lower-cased section titles
    genre_filter,    \* PlexClient._genre_filter
    plex,            \* the remote server and account the client talks to
    admin_client,    \* PlexClient._admin_client
    user_client,     \* PlexClient._user_client
    account,         \* PlexClient._account
    user_id,         \* PlexClient._user_id
    display_name,    \* PlexClient._display_name
    is_admin,        \* PlexClient._is_admin
    sections,        \* PlexClient._sections
    continue_cache,  \* PlexClient._continue_cache
    ordering_cache,  \* PlexClient._ordering_cache
    watchlist_cache, \* PlexClient._watchlist_cache
    on_deck_window,  \* PlexClient._on_deck_window
    clock,           \* the value time.monotonic() returns
    session,         \* the requests session the admin client was built with
    provider_user,   \* PlexLibraryProvider._user (its key)
    community_client, \* PlexLibraryProvider._community_client
    is_admin_user,   \* PlexLibraryProvider._is_admin_user
    request,         \* the request of the community client that is under way
    readers,         \* the is_on_continue_watching calls that are under way
    last             \* what the most recent operation was given and answered

vars == <<cfg_url, cfg_user, section_filter, genre_filter, session,
          community_client, is_admin_user, request, readers, plex, admin_client, user_client, account, user_id,
          display_name, is_admin, sections, continue_cache, ordering_cache,
          watchlist_cache, on_deck_window, clock, provider_user, last>>

config_vars == <<cfg_url, cfg_user, section_filter, genre_filter>>
identity_vars ==
    <<admin_client, user_client, account, user_id, display_name, is_admin, session>>
provider_vars == <<provider_user, community_client, is_admin_user>>
call_vars == <<request, readers>>
cache_vars == <<continue_cache, ordering_cache, watchlist_cache>>

----------------------------------------------------------------------------
(* Optional values and strings *)

None == <<>>
Some(x) == <<x>>

\* str.lower() on the alphabet of the model
LowerChar(c) == CASE c = "A" -> "a" [] c = "B" -> "b" [] c = "C" -> "c" [] OTHER -> c
Lower(s) == [i \in DOMAIN s |-> LowerChar(s[i])]

\* str.strip(): leading and trailing blanks removed
RECURSIVE LStrip(_)
LStrip(s) == IF s # <<>> /\ Head(s) = " " THEN LStrip(Tail(s)) ELSE s
RECURSIVE RStrip(_)
RStrip(s) == IF s # <<>> /\ s[Len(s)] = " " THEN RStrip(SubSeq(s, 1, Len(s) - 1)) ELSE s
Strip(s) == RStrip(LStrip(s))

\* Python truthiness of an optional string: neither None nor ""
Truthy(o) == o # None /\ o[1] # <<>>

\* `o or ""`
OrEmpty(o) == IF Truthy(o) THEN o[1] ELSE <<>>

\* str(n) for the small integers of the model
IntToStr(n) == CASE n = 0 -> "0" [] n = 1 -> "1" [] n = 2 -> "2" [] n = 3 -> "3"
                 [] n = 4 -> "4" [] n = 5 -> "5" [] OTHER -> "n"

\* next((c for c in candidates if c), default)
RECURSIVE FirstTruthy(_, _)
FirstTruthy(cands, default) ==
    IF cands = <<>> THEN default
    ELSE IF Truthy(Head(cands)) THEN Head(cands)[1]
    ELSE FirstTruthy(Tail(cands), default)

----------------------------------------------------------------------------
(* Identity resolution: PlexClient._initialize_clients *)

\* urlparse(self._url): the scheme and the hostname of the server URL
UrlParse(url) == [scheme |-> url.scheme, hostname |-> url.hostname]

\* a session built for every scheme
BuildSessionAlways(url) == Some([whitelist |-> {UrlParse(url).hostname}])

\* session = SelectiveVerifySession(whitelist=[parsed.hostname]) for an https
\* URL, None otherwise
BuildSession(url) ==
    LET parsed == UrlParse(url) IN
    IF parsed.scheme = "https" THEN Some([whitelist |-> {parsed.hostname}])
    ELSE None

\* SelectiveVerifySession.request: verify=False for a host of the whitelist;
\* without a session, and for every other host, the default verification
Verification(sess, host) ==
    IF sess # None /\ host \in sess[1].whitelist THEN "skipped" ELSE "default"

NoHandle == [kind |-> "none", login |-> <<>>]
AdminHandle == [kind |-> "admin", login |-> <<>>]
\* a switch that hands back the admin session
SwitchUserSame(login) == [kind |-> "admin", login |-> <<>>]

\* what admin_client.switchUser(login) returns
SwitchUser(login) == [kind |-> "user", login |-> login]

PlexUserName == <<"Plex User">>
PlexAdminName == <<"Plex Admin">>

\* the requested string trimmed, but an empty one still counts as a request
RequestedUserUnchecked(u) == IF u = None THEN None ELSE Some(Strip(u[1]))

\* requested_user = (self._user or "").strip() or None
RequestedUser(u) ==
    LET s == Strip(OrEmpty(u)) IN IF s = <<>> THEN None ELSE Some(s)

\* a comparison that forgets to lower-case
MatchesAccountExact(acct, requested) ==
    \E c \in {acct.username, acct.email, acct.title} : Truthy(c) /\ c[1] = requested

\* any(candidate and candidate.lower() == requested_lower for candidate in (...))
MatchesAccount(acct, requested) ==
    \E c \in {acct.username, acct.email, acct.title} :
        Truthy(c) /\ Lower(c[1]) = Lower(requested)

\* target in ((user.username or "").lower(), (user.email or "").lower(), ...)
UserMatches(user, target) ==
    target \in {Lower(OrEmpty(user.username)), Lower(OrEmpty(user.email)),
                Lower(OrEmpty(user.title))}

\* the for loop over account.users(): the first user that matches, or None
RECURSIVE MatchPlexUser(_, _)
MatchPlexUser(users, target) ==
    IF users = <<>> THEN None
    ELSE IF UserMatches(Head(users), target) THEN Some(Head(users))
    ELSE MatchPlexUser(Tail(users), target)

\* the priority reversed
LoginOfTitleFirst(user) ==
    IF Truthy(user.title) THEN user.title
    ELSE IF Truthy(user.email) THEN user.email
    ELSE user.username

\* login = target_user.username or target_user.email or target_user.title
LoginOf(user) ==
    IF Truthy(user.username) THEN user.username
    ELSE IF Truthy(user.email) THEN user.email
    ELSE user.title

ResolveDisplayName(acct, target_user, requested) ==
    IF target_user # None
    THEN FirstTruthy(<<target_user[1].username, target_user[1].email,
                       target_user[1].title, requested, Some(PlexUserName)>>,
                     PlexUserName)
    ELSE FirstTruthy(<<acct.username, acct.email, acct.title, requested,
                       Some(PlexAdminName)>>, PlexUserName)

Failure(err, arg, searched, switched, target_user) ==
    [ok |-> FALSE, err |-> err, err_arg |-> arg, searched |-> searched,
     switched |-> switched, target_user |-> target_user,
     admin_client |-> NoHandle, user_client |-> NoHandle, account |-> None,
     user_id |-> None, display_name |-> None, is_admin |-> None]

\* The whole of _initialize_clients for the config's user string u against the
\* remote p: the six values it returns, or the error it raises, together with
\* which remote calls it made.
InitializeClients(u, p) ==
    LET acct == p.account
        requested == RequestedUser(u)
        self_match == requested = None \/ MatchesAccount(acct, requested[1])
        target_user == IF self_match THEN None
                       ELSE MatchPlexUser(p.users, Lower(requested[1]))
        login == IF target_user = None THEN None ELSE LoginOf(target_user[1])
    IN  IF ~self_match /\ target_user = None
        THEN Failure("UserNotFound", requested, TRUE, FALSE, None)
        ELSE IF target_user # None /\ ~Truthy(login)
        THEN Failure("IdentitySwitchUnavailable", None, TRUE, FALSE, target_user)
        ELSE IF target_user # None /\ p.switch_fails
        THEN Failure("IdentitySwitchFailed", login, TRUE, TRUE, target_user)
        ELSE [ok |-> TRUE, err |-> "", err_arg |-> None,
              searched |-> ~self_match,
              switched |-> target_user # None,
              target_user |-> target_user,
              admin_client |-> AdminHandle,
              user_client |-> IF target_user # None THEN SwitchUser(login[1])
                              ELSE AdminHandle,
              account |-> Some(acct),
              user_id |-> IF target_user # None THEN Some(target_user[1].id)
                          ELSE Some(acct.id),
              display_name |-> Some(ResolveDisplayName(acct, target_user, requested)),
              is_admin |-> Some(self_match)]

----------------------------------------------------------------------------
(* The continue-watching and watchlist caches *)

TTL == 300

EmptyCache == [k \in {} |-> None]

\* dict.get(key)
CacheGet(cache, k) == IF k \in DOMAIN cache THEN Some(cache[k]) ELSE None

\* cache[key] = entry
CachePut(cache, k, e) ==
    [x \in DOMAIN cache \cup {k} |-> IF x = k THEN e ELSE cache[x]]

\* a comparison that trusts an entry at the instant it expires
NeedsRefreshStrict(entry, now) == entry = None \/ entry[1].expires_at < now

\* `cache_entry is None or cache_entry.expires_at <= now`
NeedsRefresh(entry, now) == entry = None \/ entry[1].expires_at <= now

\* an entry that lives a tenth of the time
NewEntryShort(keys, stored_at) == [keys |-> keys, expires_at |-> stored_at + 30]

\* _FrozenCacheEntry(keys=frozenset(keys), expires_at=monotonic() + 300), where
\* stored_at is what that second monotonic() call returns
NewEntry(keys, stored_at) == [keys |-> keys, expires_at |-> stored_at + TTL]

\* a handler that keeps what was collected before the failure
ContinueKeysPartial(out) ==
    {IntToStr(out.items[i][1]) : i \in {j \in DOMAIN out.items : out.items[j] # None}}

\* The try block of is_on_continue_watching: the rating keys of the items the
\* remote call yields, None ones skipped; nothing if the call or the iteration
\* raises (out.items are the items yielded before it did).
ContinueKeys(out) ==
    IF out.raises THEN {}
    ELSE {IntToStr(out.items[i][1]) : i \in {j \in DOMAIN out.items : out.items[j] # None}}

\* a handler that keeps the guids gathered before the failure
WatchlistKeysPartial(out) ==
    {out.items[i][1] : i \in {j \in DOMAIN out.items : out.items[j] # None}}

\* The try block of is_on_watchlist: the guids of the watchlist, None skipped
WatchlistKeys(out) ==
    IF out.raises THEN {}
    ELSE {out.items[i][1] : i \in {j \in DOMAIN out.items : out.items[j] # None}}

\* no gate at all
WatchlistGateOpen(admin) == FALSE

\* `if not self.is_admin: return False` for an initialized client
WatchlistGate(admin) == ~admin[1]

----------------------------------------------------------------------------
(* Section enumeration of initialize() *)

\* {value.lower() for value in section_filter or ()}
SectionFilter(titles) == {Lower(t) : t \in titles}

\* isinstance(raw, (MovieSection, ShowSection))
IsLibraryKind(raw) == raw.kind \in {"movie", "show"}

\* not self._section_filter or raw.title.lower() in self._section_filter,
\* with a comparison that forgets to lower-case the title
TitleAllowedExact(raw, filter) == filter = {} \/ raw.title \in filter

\* not self._section_filter or raw.title.lower() in self._section_filter
TitleAllowed(raw, filter) == filter = {} \/ Lower(raw.title) \in filter

\* the list comprehension of initialize() over library.sections()
RECURSIVE LoadSections(_, _)
LoadSections(listing, filter) ==
    IF listing = <<>> THEN <<>>
    ELSE IF IsLibraryKind(Head(listing)) /\ TitleAllowed(Head(listing), filter)
         THEN <<Head(listing)>> \o LoadSections(Tail(listing), filter)
         ELSE LoadSections(Tail(listing), filter)

----------------------------------------------------------------------------
(* Watch history: PlexClient.fetch_history and PlexLibraryProvider.get_history *)

\* datetime.astimezone(): the same instant, made timezone-aware
AsTimezone(ts) == [t |-> ts.t, aware |-> TRUE]

HistoryEntry(key, at) == [library_key |-> key, viewed_at |-> at]

\* the account id of the query, taken from the resolved identity in both cases
HistoryAccountIdOwn(admin, uid) == uid[1]

\* accountID=1 if self.is_admin else self.user_id
HistoryAccountId(admin, uid) == IF admin[1] THEN 1 ELSE uid[1]

\* The list comprehension of fetch_history over the records the remote
\* returned: those with a viewedAt, as (str(ratingKey), viewedAt.astimezone())
RECURSIVE HistoryPairs(_)
HistoryPairs(records) ==
    IF records = <<>> THEN <<>>
    ELSE LET r == Head(records) IN
         (IF r.viewedAt # None
          THEN << <<IntToStr(r.ratingKey), AsTimezone(r.viewedAt[1])>> >>
          ELSE <<>>) \o HistoryPairs(Tail(records))

\* fetch_history: [] when admin_client.history raises
FetchHistory(out) == IF out.raises THEN <<>> ELSE HistoryPairs(out.records)

\* item.episodes() for a show or a season, else the item itself
Children(item) ==
    IF item.kind \in {"show", "season"} THEN item.episodes
    ELSE <<[ratingKey |-> item.ratingKey, lastViewedAt |-> item.lastViewedAt]>>

\* a loop that does not look at the authoritative keys
RECURSIVE DerivedChildrenAll(_, _)
DerivedChildrenAll(children, base_keys) ==
    IF children = <<>> THEN <<>>
    ELSE LET c == Head(children) IN
         (IF c.lastViewedAt = None THEN <<>>
          ELSE <<HistoryEntry(IntToStr(c.ratingKey), AsTimezone(c.lastViewedAt[1]))>>)
         \o DerivedChildrenAll(Tail(children), base_keys)

\* The loop over the children of get_history
RECURSIVE DerivedChildren(_, _)
DerivedChildren(children, base_keys) ==
    IF children = <<>> THEN <<>>
    ELSE LET c == Head(children) IN
         (IF c.lastViewedAt = None THEN <<>>
          ELSE IF IntToStr(c.ratingKey) \in base_keys THEN <<>>
          ELSE <<HistoryEntry(IntToStr(c.ratingKey), AsTimezone(c.lastViewedAt[1]))>>)
         \o DerivedChildren(Tail(children), base_keys)

\* get_history, given what fetch_history returned
GetHistoryResult(item, plex_history) ==
    LET children == Children(item)
        base_entries == [i \in DOMAIN plex_history |->
                            HistoryEntry(plex_history[i][1], plex_history[i][2])]
        base_keys == {plex_history[i][1] : i \in DOMAIN plex_history}
    IN  IF children = <<>>
        THEN [i \in DOMAIN plex_history |->
                 HistoryEntry(plex_history[i][1], AsTimezone(plex_history[i][2]))]
        ELSE DerivedChildren(children, base_keys) \o base_entries

----------------------------------------------------------------------------
(* Webhooks: PlexLibraryProvider.parse_webhook *)

\* PlexWebhookEventType.MEDIA_ADDED, RATE, SCROBBLE
SyncEvents == {"library.new", "media.rate", "media.scrobble"}

\* PlexWebhook.account_id: the id of the payload's Account, if any
AccountId(payload) == payload.account_id

\* PlexWebhook.top_level_rating_key: the grandparent's key, else the parent's,
\* else the item's own
TopLevelRatingKey(payload) ==
    IF payload.grandparentRatingKey # None THEN payload.grandparentRatingKey
    ELSE IF payload.parentRatingKey # None THEN payload.parentRatingKey
    ELSE payload.ratingKey

\* `not x` for an optional integer
FalsyInt(o) == o = None \/ o[1] = 0

\* `not x` for an optional string
FalsyStr(o) == o = None \/ o[1] = ""

Rejected(why) == [error |-> "ValueError", message |-> why, sync |-> FALSE, keys |-> <<>>]
Answer(sync, keys) == [error |-> "", message |-> "", sync |-> sync, keys |-> keys]

\* a handler that filters on the event and the user before it validates
ParseWebhookFilterFirst(payload, user) ==
    IF ~(/\ payload.event \in SyncEvents
         /\ user # None
         /\ AccountId(payload) # None
         /\ user[1] = IntToStr(AccountId(payload)[1]))
    THEN Answer(FALSE, <<>>)
    ELSE IF FalsyInt(AccountId(payload))
    THEN Rejected("No account ID found in webhook payload")
    ELSE IF FalsyStr(TopLevelRatingKey(payload))
    THEN Rejected("No rating key found in webhook payload")
    ELSE Answer(TRUE, <<TopLevelRatingKey(payload)[1]>>)

\* parse_webhook for a decoded payload, user being self._user's key
ParseWebhookResult(payload, user) ==
    IF FalsyInt(AccountId(payload))
    THEN Rejected("No account ID found in webhook payload")
    ELSE IF FalsyStr(TopLevelRatingKey(payload))
    THEN Rejected("No rating key found in webhook payload")
    ELSE IF /\ payload.event \in SyncEvents
            /\ user # None
            /\ user[1] = IntToStr(AccountId(payload)[1])
    THEN Answer(TRUE, <<TopLevelRatingKey(payload)[1]>>)
    ELSE Answer(FALSE, <<>>)

----------------------------------------------------------------------------
(* Listing: PlexClient.list_section_items *)

\* datetime.fromtimestamp(0, tz=UTC)
Epoch == [t |-> 0, aware |-> TRUE]

\* one {"<level>.<attr><op>": value} entry of an "or" list; level is "" for
\* the attribute of the item itself
Clause(level, attr, op, value) ==
    [level |-> level, attr |-> attr, op |-> op, value |-> value]

\* the modified-since filter, built without looking at the section type
ModifiedFilterFlat(type, reference_dt) ==
    [or |-> <<Clause("", "lastViewedAt", ">>=", reference_dt),
              Clause("", "lastRatedAt", ">>=", reference_dt),
              Clause("", "addedAt", ">>=", reference_dt),
              Clause("", "updatedAt", ">>=", reference_dt)>>]

\* the filter appended when min_last_modified is not None
ModifiedFilter(type, reference_dt) ==
    IF type = "movie"
    THEN [or |-> <<Clause("", "lastViewedAt", ">>=", reference_dt),
                   Clause("", "lastRatedAt", ">>=", reference_dt),
                   Clause("", "addedAt", ">>=", reference_dt),
                   Clause("", "updatedAt", ">>=", reference_dt)>>]
    ELSE [or |-> <<Clause("show", "lastViewedAt", ">>=", reference_dt),
                   Clause("show", "lastRatedAt", ">>=", reference_dt),
                   Clause("show", "addedAt", ">>=", reference_dt),
                   Clause("show", "updatedAt", ">>=", reference_dt),
                   Clause("season", "lastViewedAt", ">>=", reference_dt),
                   Clause("season", "lastRatedAt", ">>=", reference_dt),
                   Clause("season", "addedAt", ">>=", reference_dt),
                   Clause("season", "updatedAt", ">>=", reference_dt),
                   Clause("episode", "lastViewedAt", ">>=", reference_dt),
                   Clause("episode", "lastRatedAt", ">>=", reference_dt),
                   Clause("episode", "addedAt", ">>=", reference_dt),
                   Clause("episode", "updatedAt", ">>=", reference_dt)>>]

\* the view count 0 that viewCount is compared with
ZeroViews == [count |-> 0]

\* the filter appended when require_watched is true
WatchedFilter(type) ==
    IF type = "movie"
    THEN [or |-> <<Clause("", "viewCount", ">>", ZeroViews),
                   Clause("", "lastViewedAt", ">>", Epoch),
                   Clause("", "lastRatedAt", ">>", Epoch)>>]
    ELSE [or |-> <<Clause("show", "viewCount", ">>", ZeroViews),
                   Clause("show", "lastViewedAt", ">>", Epoch),
                   Clause("show", "lastRatedAt", ">>", Epoch),
                   Clause("season", "viewCount", ">>", ZeroViews),
                   Clause("season", "lastViewedAt", ">>", Epoch),
                   Clause("season", "lastRatedAt", ">>", Epoch),
                   Clause("episode", "viewCount", ">>", ZeroViews),
                   Clause("episode", "lastViewedAt", ">>", Epoch),
                   Clause("episode", "lastRatedAt", ">>", Epoch)>>]

\* {"genre": self._genre_filter}
GenreClause(genres) == [genre |-> genres]

\* the filters list, with the genre clause put first
SearchFiltersGenreFirst(type, min_last_modified, require_watched, genres) ==
    (IF genres # <<>> THEN <<GenreClause(genres)>> ELSE <<>>)
    \o (IF min_last_modified # None
        THEN <<ModifiedFilter(type, AsTimezone(min_last_modified[1]))>> ELSE <<>>)
    \o (IF require_watched THEN <<WatchedFilter(type)>> ELSE <<>>)

\* the filters list that _search_sync builds
SearchFilters(type, min_last_modified, require_watched, genres) ==
    (IF min_last_modified # None
     THEN <<ModifiedFilter(type, AsTimezone(min_last_modified[1]))>> ELSE <<>>)
    \o (IF require_watched THEN <<WatchedFilter(type)>> ELSE <<>>)
    \o (IF genres # <<>> THEN <<GenreClause(genres)>> ELSE <<>>)

\* search_kwargs: the keyword arguments of section.search(), as a dict
SearchKwargs(filters) ==
    [k \in (IF filters # <<>> THEN {"filters"} ELSE {}) |-> [and |-> filters]]

\* frozenset(str(k) for k in keys) if keys else None
KeyFilter(keys) ==
    IF keys # None /\ keys[1] # <<>>
    THEN Some({keys[1][i] : i \in DOMAIN keys[1]})
    ELSE None

\* the loop over the search results
RECURSIVE KeepItems(_, _)
KeepItems(results, key_filter) ==
    IF results = <<>> THEN <<>>
    ELSE LET item == Head(results)
             rest == KeepItems(Tail(results), key_filter)
         IN  IF item.kind \notin {"movie", "show"} THEN rest
             ELSE IF key_filter # None /\ IntToStr(item.ratingKey) \notin key_filter[1]
             THEN rest
             ELSE <<item>> \o rest

\* _search_sync without the except clause around section.search()
SearchSyncRaising(out, keys) ==
    IF out.raises THEN [error |-> "Exception", items |-> <<>>]
    ELSE [error |-> "", items |-> KeepItems(out.results, KeyFilter(keys))]

\* what _search_sync returns when section.search() does what out says
SearchSync(out, keys) ==
    IF out.raises THEN [error |-> "", items |-> <<>>]
    ELSE [error |-> "", items |-> KeepItems(out.results, KeyFilter(keys))]

----------------------------------------------------------------------------
(* Episode ordering: PlexClient.get_ordering *)

\* the mapping of a show's own showOrdering, reading "aired" as TMDB order
ShowOrderingAiredTmdb(value) ==
    IF value \in {"tmdbAiring", "aired"} THEN "tmdb"
    ELSE IF value = "tvdbAiring" THEN "tvdb"
    ELSE ""

\* the mapping of a show's own showOrdering
ShowOrdering(value) ==
    IF value = "tmdbAiring" THEN "tmdb"
    ELSE IF value \in {"tvdbAiring", "aired"} THEN "tvdb"
    ELSE ""

\* the mapping of the section's showOrdering setting; None when the section
\* has no such setting
SectionOrdering(ordering_setting) ==
    IF ordering_setting = None THEN ""
    ELSE LET value == ordering_setting[1] IN
         IF value = "tmdbAiring" THEN "tmdb"
         ELSE IF value \in {"aired", "tvdbAiring"} THEN "tvdb"
         ELSE ""

\* `if show.showOrdering:`
HasOverride(show) == show.showOrdering # None /\ show.showOrdering[1] # ""

----------------------------------------------------------------------------
(* External ids: PlexLibraryMedia.ids *)

(* A guid string is a sequence of tokens: the separators "://", "/" and "?"  *)
(* are tokens of their own and every other token holds none of them.         *)

\* _GUID_NAMESPACE_MAP.get(prefix)
GuidNamespace(prefix) ==
    CASE prefix = <<"imdb">> -> Some("imdb")
      [] prefix = <<"tmdb">> -> Some("tmdb")
      [] prefix = <<"tvdb">> -> Some("tvdb")
      [] prefix = <<"com.plexapp.agents.imdb">> -> Some("imdb")
      [] prefix = <<"com.plexapp.agents.thetvdb">> -> Some("tvdb")
      [] prefix = <<"com.plexapp.agents.themoviedb">> -> Some("tmdb")
      [] prefix = <<"com.plexapp.agents.tmdb">> -> Some("tmdb")
      [] OTHER -> None

\* the index of the first token of s that is in seps, from i on; 0 if none
RECURSIVE FindFirst(_, _, _)
FindFirst(s, seps, i) ==
    IF i > Len(s) THEN 0
    ELSE IF s[i] \in seps THEN i
    ELSE FindFirst(s, seps, i + 1)

\* the index of the last token of s that is in seps, from i down; 0 if none
RECURSIVE FindLast(_, _, _)
FindLast(s, seps, i) ==
    IF i = 0 THEN 0
    ELSE IF s[i] \in seps THEN i
    ELSE FindLast(s, seps, i - 1)

\* s.split(sep, 1)[0]
SplitHead(s, sep) ==
    LET i == FindFirst(s, {sep}, 1) IN IF i = 0 THEN s ELSE SubSeq(s, 1, i - 1)

\* s.split(sep, 1)[1], for an s that holds sep
SplitTail(s, sep) ==
    LET i == FindFirst(s, {sep}, 1) IN SubSeq(s, i + 1, Len(s))

\* s.rsplit("/", 1)[-1]; the last character of "://" is a "/" too
AfterLastSlash(s) ==
    LET i == FindLast(s, {"/", "://"}, Len(s)) IN SubSeq(s, i + 1, Len(s))

\* the tmdb and tvdb namespaces, told apart by asking whether the kind is SHOW
DisambiguateByShow(namespace, media_kind) ==
    IF namespace = "tmdb"
    THEN (IF media_kind = "show" THEN "tmdb_show" ELSE "tmdb_movie")
    ELSE IF namespace = "tvdb"
    THEN (IF media_kind = "show" THEN "tvdb_show" ELSE "tvdb_movie")
    ELSE namespace

\* the tmdb and tvdb namespaces, told apart by the wrapper's media kind
Disambiguate(namespace, media_kind) ==
    IF namespace = "tmdb"
    THEN (IF media_kind = "movie" THEN "tmdb_movie" ELSE "tmdb_show")
    ELSE IF namespace = "tvdb"
    THEN (IF media_kind = "movie" THEN "tvdb_movie" ELSE "tvdb_show")
    ELSE namespace

\* dict.setdefault(key, value)
SetDefault(ids, key, value) ==
    IF key \in DOMAIN ids THEN ids
    ELSE [k \in DOMAIN ids \cup {key} |-> IF k = key THEN value ELSE ids[k]]

\* the loop of ids() over item.guids, from the dict ids on
RECURSIVE GuidIds(_, _, _)
GuidIds(guids, media_kind, ids) ==
    IF guids = <<>> THEN ids
    ELSE LET id == Head(guids)
             rest == Tail(guids)
         IN  IF id = <<>> \/ FindFirst(id, {"://"}, 1) = 0
             THEN GuidIds(rest, media_kind, ids)
             ELSE LET namespace == GuidNamespace(SplitHead(id, "://"))
                      value == SplitHead(SplitTail(id, "://"), "?")
                  IN  IF namespace = None
                      THEN GuidIds(rest, media_kind, ids)
                      ELSE GuidIds(rest, media_kind,
                                   SetDefault(ids, Disambiguate(namespace[1], media_kind),
                                              value))

\* PlexLibraryMedia.ids() of a wrapper of the given kind around item
IdsOf(item, media_kind) ==
    LET ids == GuidIds(item.guids, media_kind, [k \in {} |-> <<>>])
    IN  IF item.guid # None /\ item.guid[1] # <<>>
        THEN SetDefault(ids, "plex", AfterLastSlash(item.guid[1]))
        ELSE ids

----------------------------------------------------------------------------
(* The community client's request: PlexCommunityClient._make_request *)

\* the number of attempts one request makes at most
RetryLimit == 3

\* the delay slept when the rate-limit response advises none
DefaultDelay == 1

\* whether another attempt follows the rate-limited attempt, with the bound
\* tested after the increment
MayRetryOneMore(attempt) == attempt <= RetryLimit

\* whether another attempt follows the rate-limited attempt
MayRetry(attempt) == attempt < RetryLimit

\* the server-advised delay, or the default when the response gives none
RetryDelay(response) ==
    IF response.retry_after # None THEN response.retry_after[1] ELSE DefaultDelay

----------------------------------------------------------------------------
(* Bounds and the inputs of the operations *)

\* the server URL of a client whose session is not looked at
TheUrl == [scheme |-> "http", hostname |-> "plex.example"]

\* PlexCommunityClient(token)
CommunityClient == [kind |-> "community"]

\* no request of the community client is under way
NoRequest == [state |-> "idle"]

\* the tasks that call is_on_continue_watching side by side
Readers == {1, 2}

\* a task that is in no call
Idle == [pc |-> "idle"]

MaxClock == 450
Step == 150
MaxUsers == 2
MaxItems == 2
MaxRecords == 2

SectionIds == {1, 2}
RatingKeys == {1, 2}
Guids == {"g1", "g2"}

RECURSIVE SeqsUpTo(_, _)
SeqsUpTo(S, n) ==
    IF n = 0 THEN {<<>>}
    ELSE LET shorter == SeqsUpTo(S, n - 1)
         IN shorter \cup {Append(s, x) : s \in {t \in shorter : Len(t) = n - 1}, x \in S}

\* what section.continueWatching() may do: yield these items, then perhaps raise
ContinueOutcomes ==
    {[items |-> its, raises |-> r] :
        its \in {<<>>, <<None, Some(1)>>, <<Some(2), Some(1)>>}, r \in BOOLEAN}

\* what account.watchlist() may do
WatchlistOutcomes ==
    {[items |-> its, raises |-> r] :
        its \in {<<>>, <<Some("g1"), None>>}, r \in BOOLEAN}

\* how long a remote call takes on the monotonic clock
Elapsed == {0, Step}

\* what library.sections() may return
TheListing ==
    <<[key |-> 1, kind |-> "movie", title |-> <<"A">>],
      [key |-> 3, kind |-> "photo", title |-> <<"B">>],
      [key |-> 2, kind |-> "show", title |-> <<"C">>]>>
Listings ==
    {TheListing,
     <<[key |-> 1, kind |-> "movie", title |-> <<"A">>]>>,
     <<[key |-> 4, kind |-> "show", title |-> <<"C">>],
       [key |-> 5, kind |-> "photo", title |-> <<"A">>],
       [key |-> 6, kind |-> "movie", title |-> <<"b">>]>>,
     <<>>}

\* what section.search() may do: return these results, or raise
SearchOutcomes ==
    {[results |-> rs, raises |-> FALSE] :
        rs \in {<<>>,
                <<[kind |-> "movie", ratingKey |-> 1], [kind |-> "episode", ratingKey |-> 2],
                  [kind |-> "show", ratingKey |-> 3]>>,
                <<[kind |-> "show", ratingKey |-> 2], [kind |-> "movie", ratingKey |-> 1]>>}}
    \cup {[results |-> <<>>, raises |-> TRUE]}

\* the keys argument of a listing: absent, empty, or an allowlist
KeyLists == {None, Some(<<>>), Some(<<"1">>), Some(<<"3", "1", "9">>)}

\* the genre allowlists a client is configured with
GenreFilters == {<<>>, <<"Anime">>, <<"Anime", "Action">>}

\* the onDeckWindow setting, in weeks; None when it cannot be read
OnDeckWindows == {None, Some(1)}

\* a naive local datetime, as python-plexapi returns them
Naive(t) == [t |-> t, aware |-> FALSE]

ChildKeys == {1, 2, 3}

Distinct(eps) == \A i, j \in DOMAIN eps : i # j => eps[i].ratingKey # eps[j].ratingKey

\* item.episodes(): up to MaxItems episodes, each viewed or not
EpisodeLists ==
    {eps \in SeqsUpTo([ratingKey : ChildKeys, lastViewedAt : {None, Some(Naive(10))}],
                       MaxItems) : Distinct(eps)}

\* the items get_history is asked about
Items ==
    [kind : {"movie", "episode"}, ratingKey : {1}, librarySectionID : {1},
     lastViewedAt : {None, Some(Naive(10))}, episodes : {<<>>}]
    \cup [kind : {"show", "season"}, ratingKey : {4}, librarySectionID : {1},
          lastViewedAt : {Some(Naive(30))}, episodes : EpisodeLists]

\* what admin_client.history(...) may do: return these records, or raise
HistoryOutcomes ==
    [records : SeqsUpTo([ratingKey : {1, 2}, viewedAt : {None, Some(Naive(20))}],
                        MaxRecords),
     raises : {FALSE}]
    \cup {[records |-> <<>>, raises |-> TRUE]}

TheItem ==
    [kind |-> "movie", ratingKey |-> 1, librarySectionID |-> 1,
     lastViewedAt |-> None, episodes |-> <<>>]
TheHistory == [records |-> <<>>, raises |-> FALSE]

\* the decoded webhook payloads
Payloads ==
    [event : {"library.new", "media.rate", "media.scrobble", "media.play",
              "library.on.deck"},
     account_id : {None, Some(0), Some(1), Some(2)},
     grandparentRatingKey : {None, Some("show")},
     parentRatingKey : {None, Some("season")},
     ratingKey : {None, Some("episode")}]

TheAccount == [username |-> Some(<<"A">>), email |-> None, title |-> Some(<<"A">>), id |-> 1]
RenamedAccount == [username |-> Some(<<"B">>), email |-> None, title |-> Some(<<"B">>), id |-> 1]
TheUsers == <<[username |-> Some(<<"B">>), email |-> None, title |-> None, id |-> 2]>>

----------------------------------------------------------------------------
(* The operations *)

Ok(op) == [op |-> op, error |-> ""]
NotInitialized(op) == [op |-> op, error |-> "RuntimeError"]

\* which sections and which ordering keys the two caches that clear_cache()
\* empties hold when an operation starts
Held == [continue |-> DOMAIN continue_cache, ordering |-> DOMAIN ordering_cache]

\* an initialize() that empties the caches before it resolves the identity
InitializeClearingFirst(listing, window) ==
    LET r == InitializeClients(cfg_user, plex) IN
    /\ last' = [op |-> "initialize", error |-> r.err, ok |-> r.ok,
                err_arg |-> r.err_arg, searched |-> r.searched,
                switched |-> r.switched, target_user |-> r.target_user,
                listing |-> listing, held |-> Held, replaced |-> sections]
    /\ continue_cache' = EmptyCache
    /\ ordering_cache' = EmptyCache
    /\ IF r.ok
       THEN /\ admin_client' = r.admin_client
            /\ user_client' = r.user_client
            /\ account' = r.account
            /\ user_id' = r.user_id
            /\ display_name' = r.display_name
            /\ is_admin' = r.is_admin
            /\ sections' = LoadSections(listing, section_filter)
            /\ on_deck_window' = window
            /\ session' = BuildSession(cfg_url)
            /\ provider_user' = Some(IntToStr(r.user_id[1]))
            /\ community_client' = Some(CommunityClient)
            /\ is_admin_user' = r.is_admin[1]
            /\ UNCHANGED <<watchlist_cache>>
       ELSE UNCHANGED <<identity_vars, sections, on_deck_window, watchlist_cache,
                        provider_vars>>
    /\ UNCHANGED <<config_vars, plex, clock, call_vars>>

\* PlexLibraryProvider.initialize: PlexClient.initialize (identity resolution,
\* section enumeration, on-deck window, clear_cache), then the provider's user.
Initialize(listing, window) ==
    LET r == InitializeClients(cfg_user, plex) IN
    /\ last' = [op |-> "initialize", error |-> r.err, ok |-> r.ok,
                err_arg |-> r.err_arg, searched |-> r.searched,
                switched |-> r.switched, target_user |-> r.target_user,
                listing |-> listing, held |-> Held, replaced |-> sections]
    /\ IF r.ok
       THEN /\ admin_client' = r.admin_client
            /\ user_client' = r.user_client
            /\ account' = r.account
            /\ user_id' = r.user_id
            /\ display_name' = r.display_name
            /\ is_admin' = r.is_admin
            /\ sections' = LoadSections(listing, section_filter)
            /\ on_deck_window' = window
            /\ continue_cache' = EmptyCache
            /\ ordering_cache' = EmptyCache
            /\ session' = BuildSession(cfg_url)
            /\ provider_user' = Some(IntToStr(r.user_id[1]))
            /\ community_client' = Some(CommunityClient)
            /\ is_admin_user' = r.is_admin[1]
            /\ UNCHANGED <<watchlist_cache>>
       ELSE UNCHANGED <<identity_vars, sections, on_deck_window, cache_vars,
                        provider_vars, call_vars>>
    /\ UNCHANGED <<config_vars, plex, clock, call_vars>>

\* a close() that leaves the user handle in place
CloseKeepsUserClient ==
    /\ admin_client' = NoHandle
    /\ account' = None
    /\ user_id' = None
    /\ display_name' = None
    /\ is_admin' = None
    /\ session' = None
    /\ community_client' = None
    /\ sections' = <<>>
    /\ continue_cache' = EmptyCache
    /\ ordering_cache' = EmptyCache
    /\ last' = Ok("close")
    /\ UNCHANGED <<config_vars, plex, watchlist_cache, on_deck_window, clock,
                   provider_user, is_admin_user, call_vars, user_client>>

\* PlexLibraryProvider.close: PlexClient.close
Close ==
    /\ admin_client' = NoHandle
    /\ user_client' = NoHandle
    /\ account' = None
    /\ user_id' = None
    /\ display_name' = None
    /\ is_admin' = None
    /\ session' = None
    /\ community_client' = None
    /\ sections' = <<>>
    /\ continue_cache' = EmptyCache
    /\ ordering_cache' = EmptyCache
    /\ last' = Ok("close")
    /\ UNCHANGED <<config_vars, plex, watchlist_cache, on_deck_window, clock,
                   provider_user, is_admin_user, call_vars>>

\* clear_cache() that forgets the ordering cache
ClearCacheContinueOnly ==
    /\ continue_cache' = EmptyCache
    /\ last' = [op |-> "clear_cache", error |-> "", held |-> Held]
    /\ UNCHANGED <<config_vars, plex, identity_vars, sections, ordering_cache,
                   watchlist_cache, on_deck_window, clock, provider_vars, call_vars>>

\* PlexClient.clear_cache
ClearCache ==
    /\ continue_cache' = EmptyCache
    /\ ordering_cache' = EmptyCache
    /\ last' = [op |-> "clear_cache", error |-> "", held |-> Held]
    /\ UNCHANGED <<config_vars, plex, identity_vars, sections, watchlist_cache,
                   on_deck_window, clock, provider_vars, call_vars>>

\* the owner of the account renames it on the remote side
AccountRenamed ==
    /\ plex' = [plex EXCEPT !.account = IF plex.account = TheAccount
                                       THEN RenamedAccount ELSE TheAccount]
    /\ UNCHANGED <<config_vars, identity_vars, sections, cache_vars, on_deck_window,
                   clock, provider_vars, call_vars, last>>

\* time passes
Tick ==
    /\ clock + Step <= MaxClock
    /\ clock' = clock + Step
    /\ last' = Ok("tick")
    /\ UNCHANGED <<config_vars, plex, identity_vars, sections, cache_vars,
                   on_deck_window, provider_vars, call_vars>>

\* PlexClient.is_on_continue_watching(section, item); out and d are what the
\* remote call does and how long it takes, if it is made.
IsOnContinueWatching(section, item, out, d) ==
    LET k == IntToStr(section)
        now == clock
        pre == CacheGet(continue_cache, k)
        refresh == NeedsRefresh(pre, now)
        entry == IF refresh THEN NewEntry(ContinueKeys(out), now + d) ELSE pre[1]
    IN  IF user_client = NoHandle
        THEN /\ last' = NotInitialized("is_on_continue_watching")
             /\ UNCHANGED <<config_vars, plex, identity_vars, sections, cache_vars,
                            on_deck_window, clock, provider_vars, call_vars>>
        ELSE /\ refresh => now + d <= MaxClock
             /\ clock' = IF refresh THEN now + d ELSE clock
             /\ continue_cache' = IF refresh THEN CachePut(continue_cache, k, entry)
                                  ELSE continue_cache
             /\ last' = [op |-> "is_on_continue_watching", error |-> "",
                         section |-> section, item |-> item,
                         pre |-> pre, now |-> now,
                         calls |-> IF refresh THEN 1 ELSE 0,
                         yielded |-> IF refresh THEN Len(out.items) ELSE 0,
                         source_raised |-> refresh /\ out.raises,
                         result |-> IntToStr(item) \in entry.keys]
             /\ UNCHANGED <<config_vars, plex, identity_vars, sections, ordering_cache,
                            watchlist_cache, on_deck_window, provider_vars, call_vars>>

\* is_on_continue_watching up to its test of the cache entry, for the caller
\* r: the guard, dict.get and monotonic(). A fresh entry answers the call at
\* once; an absent or expired one sends the caller to the remote.
BeginContinue(r, section, item) ==
    LET k == IntToStr(section)
        now == clock
        pre == CacheGet(continue_cache, k)
    IN  /\ readers[r].pc = "idle"
        /\ IF user_client = NoHandle
           THEN /\ last' = NotInitialized("is_on_continue_watching")
                /\ UNCHANGED readers
           ELSE IF NeedsRefresh(pre, now)
           THEN /\ last' = [op |-> "begin", error |-> "", reader |-> r]
                /\ readers' = [readers EXCEPT ![r] =
                                 [pc |-> "fetching", section |-> section,
                                  item |-> item]]
           ELSE /\ last' = [op |-> "return", error |-> "", reader |-> r,
                            section |-> section, item |-> item, calls |-> 0,
                            result |-> IntToStr(item) \in pre[1].keys]
                /\ UNCHANGED readers
        /\ UNCHANGED <<config_vars, plex, identity_vars, sections, cache_vars,
                       on_deck_window, clock, provider_vars, request>>

\* section.continueWatching() of the caller r is over, with the outcome out:
\* the local set rating_keys is complete, or cleared by the handler
FetchContinue(r, out) ==
    /\ readers[r].pc = "fetching"
    /\ readers' = [readers EXCEPT ![r] =
                     [pc |-> "storing", section |-> readers[r].section,
                      item |-> readers[r].item, out |-> out,
                      rating_keys |-> ContinueKeys(out)]]
    /\ last' = [op |-> "fetch", error |-> "", reader |-> r]
    /\ UNCHANGED <<config_vars, plex, identity_vars, sections, cache_vars,
                   on_deck_window, clock, provider_vars, request>>

\* the caller r builds its entry and assigns it to the cache
StoreContinue(r) ==
    LET cache_entry == NewEntry(readers[r].rating_keys, clock) IN
    /\ readers[r].pc = "storing"
    /\ continue_cache' =
         CachePut(continue_cache, IntToStr(readers[r].section), cache_entry)
    /\ readers' = [readers EXCEPT ![r] =
                     [pc |-> "returning", section |-> readers[r].section,
                      item |-> readers[r].item, out |-> readers[r].out,
                      cache_entry |-> cache_entry]]
    /\ last' = [op |-> "store", error |-> "", reader |-> r]
    /\ UNCHANGED <<config_vars, plex, identity_vars, sections, ordering_cache,
                   watchlist_cache, on_deck_window, clock, provider_vars, request>>

\* a return statement that looks the entry up in the cache again
ReturnContinueFromCache(r) ==
    LET k == IntToStr(readers[r].section) IN
    /\ readers[r].pc = "returning"
    /\ readers' = [readers EXCEPT ![r] = Idle]
    /\ last' = [op |-> "return", error |-> "", reader |-> r,
                section |-> readers[r].section, item |-> readers[r].item,
                calls |-> 1, out |-> readers[r].out,
                result |-> /\ k \in DOMAIN continue_cache
                           /\ IntToStr(readers[r].item) \in continue_cache[k].keys]
    /\ UNCHANGED <<config_vars, plex, identity_vars, sections, cache_vars,
                   on_deck_window, clock, provider_vars, request>>

\* `return str(item.ratingKey) in cache_entry.keys` of the caller r, on the
\* entry the caller holds
ReturnContinue(r) ==
    /\ readers[r].pc = "returning"
    /\ readers' = [readers EXCEPT ![r] = Idle]
    /\ last' = [op |-> "return", error |-> "", reader |-> r,
                section |-> readers[r].section, item |-> readers[r].item,
                calls |-> 1, out |-> readers[r].out,
                result |-> IntToStr(readers[r].item)
                              \in readers[r].cache_entry.keys]
    /\ UNCHANGED <<config_vars, plex, identity_vars, sections, cache_vars,
                   on_deck_window, clock, provider_vars, request>>

\* PlexClient.is_on_watchlist(item), item.guid being guid
IsOnWatchlist(guid, out, d) ==
    LET now == clock
        pre == watchlist_cache
        refresh == NeedsRefresh(pre, now)
        entry == IF refresh THEN NewEntry(WatchlistKeys(out), now + d) ELSE pre[1]
    IN  IF is_admin = None
        THEN /\ last' = NotInitialized("is_on_watchlist")
             /\ UNCHANGED <<config_vars, plex, identity_vars, sections, cache_vars,
                            on_deck_window, clock, provider_vars, call_vars>>
        ELSE IF WatchlistGate(is_admin)
        THEN /\ last' = [op |-> "is_on_watchlist", error |-> "", guid |-> guid,
                         pre |-> pre, now |-> now, calls |-> 0,
                         source_raised |-> FALSE, result |-> FALSE]
             /\ UNCHANGED <<config_vars, plex, identity_vars, sections, cache_vars,
                            on_deck_window, clock, provider_vars, call_vars>>
        ELSE /\ refresh => now + d <= MaxClock
             /\ clock' = IF refresh THEN now + d ELSE clock
             /\ watchlist_cache' = IF refresh THEN Some(entry) ELSE watchlist_cache
             /\ last' = [op |-> "is_on_watchlist", error |-> "", guid |-> guid,
                         pre |-> pre, now |-> now,
                         calls |-> IF refresh THEN 1 ELSE 0,
                         source_raised |-> refresh /\ out.raises,
                         result |-> guid # None /\ guid[1] \in entry.keys]
             /\ UNCHANGED <<config_vars, plex, identity_vars, sections, continue_cache,
                            ordering_cache, on_deck_window, provider_vars, call_vars>>

\* PlexClient.list_section_items(section, min_last_modified, require_watched,
\* keys) on a section of the given type; out is what section.search() does
ListSectionItems(type, min_last_modified, require_watched, keys, out) ==
    LET filters == SearchFilters(type, min_last_modified, require_watched, genre_filter)
        r == SearchSync(out, keys)
    IN  /\ last' = [op |-> "list_section_items", error |-> r.error,
                    type |-> type, min_last_modified |-> min_last_modified,
                    require_watched |-> require_watched, keys |-> keys,
                    search_kwargs |-> SearchKwargs(filters),
                    source_raised |-> out.raises, results |-> out.results,
                    items |-> r.items]
        /\ UNCHANGED <<config_vars, plex, identity_vars, sections, cache_vars,
                       on_deck_window, clock, provider_vars, call_vars>>

\* get_ordering with `if cached:` as the test of the cached value
GetOrderingTruthyCache(show, raises) ==
    LET sid == show.librarySectionID
        cached == CacheGet(ordering_cache, sid)
        observed == [op |-> "get_ordering", show |-> show, pre |-> cached]
    IN  IF HasOverride(show)
        THEN /\ last' = observed @@ [error |-> "", calls |-> 0, setting |-> None,
                                     result |-> ShowOrdering(show.showOrdering[1])]
             /\ UNCHANGED <<config_vars, plex, identity_vars, sections, cache_vars,
                            on_deck_window, clock, provider_vars, call_vars>>
        ELSE IF cached # None /\ cached[1] # ""
        THEN /\ last' = observed @@ [error |-> "", calls |-> 0, setting |-> None,
                                     result |-> cached[1]]
             /\ UNCHANGED <<config_vars, plex, identity_vars, sections, cache_vars,
                            on_deck_window, clock, provider_vars, call_vars>>
        ELSE IF raises
        THEN /\ last' = observed @@ [error |-> "Exception", calls |-> 1,
                                     setting |-> None, result |-> ""]
             /\ UNCHANGED <<config_vars, plex, identity_vars, sections, cache_vars,
                            on_deck_window, clock, provider_vars, call_vars>>
        ELSE LET resolved == SectionOrdering(plex.settings[sid]) IN
             /\ last' = observed @@ [error |-> "", calls |-> 1,
                                     setting |-> plex.settings[sid],
                                     result |-> resolved]
             /\ ordering_cache' = CachePut(ordering_cache, sid, resolved)
             /\ UNCHANGED <<config_vars, plex, identity_vars, sections, continue_cache,
                            watchlist_cache, on_deck_window, clock, provider_vars, call_vars>>

\* PlexClient.get_ordering(show); raises says whether show.section().settings()
\* fails, if it is called
GetOrdering(show, raises) ==
    LET sid == show.librarySectionID
        cached == CacheGet(ordering_cache, sid)
        observed == [op |-> "get_ordering", show |-> show, pre |-> cached]
    IN  IF HasOverride(show)
        THEN /\ last' = observed @@ [error |-> "", calls |-> 0, setting |-> None,
                                     result |-> ShowOrdering(show.showOrdering[1])]
             /\ UNCHANGED <<config_vars, plex, identity_vars, sections, cache_vars,
                            on_deck_window, clock, provider_vars, call_vars>>
        ELSE IF cached # None
        THEN /\ last' = observed @@ [error |-> "", calls |-> 0, setting |-> None,
                                     result |-> cached[1]]
             /\ UNCHANGED <<config_vars, plex, identity_vars, sections, cache_vars,
                            on_deck_window, clock, provider_vars, call_vars>>
        ELSE IF raises
        THEN /\ last' = observed @@ [error |-> "Exception", calls |-> 1,
                                     setting |-> None, result |-> ""]
             /\ UNCHANGED <<config_vars, plex, identity_vars, sections, cache_vars,
                            on_deck_window, clock, provider_vars, call_vars>>
        ELSE LET resolved == SectionOrdering(plex.settings[sid]) IN
             /\ last' = observed @@ [error |-> "", calls |-> 1,
                                     setting |-> plex.settings[sid],
                                     result |-> resolved]
             /\ ordering_cache' = CachePut(ordering_cache, sid, resolved)
             /\ UNCHANGED <<config_vars, plex, identity_vars, sections, continue_cache,
                            watchlist_cache, on_deck_window, clock, provider_vars, call_vars>>

\* the showOrdering setting of a section is changed on the server
SectionSettingChanged(section, setting) ==
    /\ plex.settings[section] # setting
    /\ plex' = [plex EXCEPT !.settings[section] = setting]
    /\ UNCHANGED <<config_vars, identity_vars, sections, cache_vars, on_deck_window,
                   clock, provider_vars, call_vars, last>>

\* PlexLibraryMedia.ids() on the wrapper of the media item of the remote
Ids ==
    /\ last' = [op |-> "ids", error |-> "",
                result |-> IdsOf(plex.media.item, plex.media.kind)]
    /\ UNCHANGED <<config_vars, plex, identity_vars, sections, cache_vars,
                   on_deck_window, clock, provider_vars, call_vars>>

\* an HTTP request that the admin client, or the account object it created,
\* sends to host through the session the client was built with
Request(host) ==
    /\ admin_client # NoHandle
    /\ last' = [op |-> "request", error |-> "", host |-> host,
                verify |-> Verification(session, host)]
    /\ UNCHANGED <<config_vars, plex, identity_vars, sections, cache_vars,
                   on_deck_window, clock, provider_vars, call_vars>>

\* get_review without the except clause around the community client's call
GetReviewResultRaising(client, admin, item, out) ==
    IF client = None \/ ~admin
    THEN [error |-> "", calls |-> 0, metadata_id |-> None, result |-> None]
    ELSE IF item.userRating = None /\ item.lastRatedAt = None
    THEN [error |-> "", calls |-> 0, metadata_id |-> None, result |-> None]
    ELSE IF item.guid = None \/ item.guid[1] = <<>>
    THEN [error |-> "", calls |-> 0, metadata_id |-> None, result |-> None]
    ELSE LET metadata_id == AfterLastSlash(item.guid[1]) IN
         IF out.raises
         THEN [error |-> "Exception", calls |-> 1,
               metadata_id |-> Some(metadata_id), result |-> None]
         ELSE [error |-> "", calls |-> 1,
               metadata_id |-> Some(metadata_id), result |-> out.review]

\* what get_review answers for the provider's community client and admin flag,
\* when get_reviews(metadata_id) does what out says
GetReviewResult(client, admin, item, out) ==
    IF client = None \/ ~admin
    THEN [error |-> "", calls |-> 0, metadata_id |-> None, result |-> None]
    ELSE IF item.userRating = None /\ item.lastRatedAt = None
    THEN [error |-> "", calls |-> 0, metadata_id |-> None, result |-> None]
    ELSE IF item.guid = None \/ item.guid[1] = <<>>
    THEN [error |-> "", calls |-> 0, metadata_id |-> None, result |-> None]
    ELSE LET metadata_id == AfterLastSlash(item.guid[1]) IN
         IF out.raises
         THEN [error |-> "", calls |-> 1,
               metadata_id |-> Some(metadata_id), result |-> None]
         ELSE [error |-> "", calls |-> 1,
               metadata_id |-> Some(metadata_id), result |-> out.review]

\* PlexLibraryProvider.get_review(item)
GetReview(item, out) ==
    LET r == GetReviewResult(community_client, is_admin_user, item, out) IN
    /\ last' = [op |-> "get_review", error |-> r.error, item |-> item,
                calls |-> r.calls, metadata_id |-> r.metadata_id,
                source_raised |-> r.calls = 1 /\ out.raises,
                offered |-> out.review, result |-> r.result]
    /\ UNCHANGED <<config_vars, plex, identity_vars, sections, cache_vars,
                   on_deck_window, clock, provider_vars, call_vars>>

\* _make_request is called: the first attempt is sent
StartRequest ==
    /\ community_client # None
    /\ request.state \in {"idle", "done", "failed"}
    /\ request' = [state |-> "sending", attempt |-> 1, slept |-> <<>>]
    /\ last' = [op |-> "make_request", error |-> ""]
    /\ UNCHANGED <<config_vars, plex, identity_vars, sections, cache_vars,
                   on_deck_window, clock, provider_vars, readers>>

\* the response to the attempt that is out arrives: a result is returned, a
\* rate-limit response is slept on or ends the request, an error is raised
Respond(response) ==
    /\ request.state = "sending"
    /\ request' =
         IF response.status = "ok"
         THEN [state |-> "done", attempt |-> request.attempt,
               slept |-> request.slept, result |-> response.payload]
         ELSE IF response.status = "rate_limited"
         THEN IF MayRetry(request.attempt)
              THEN [state |-> "sleeping", attempt |-> request.attempt,
                    slept |-> request.slept, delay |-> RetryDelay(response),
                    advised |-> response.retry_after]
              ELSE [state |-> "failed", attempt |-> request.attempt,
                    slept |-> request.slept, why |-> "rate_limited"]
         ELSE [state |-> "failed", attempt |-> request.attempt,
               slept |-> request.slept, why |-> "error"]
    /\ last' = [op |-> "response", error |-> "", response |-> response]
    /\ UNCHANGED <<config_vars, plex, identity_vars, sections, cache_vars,
                   on_deck_window, clock, provider_vars, readers>>

\* asyncio.sleep(delay) is over: the next attempt is sent
Wake ==
    /\ request.state = "sleeping"
    /\ request' = [state |-> "sending", attempt |-> request.attempt + 1,
                   slept |-> Append(request.slept, request.delay)]
    /\ last' = [op |-> "retry", error |-> ""]
    /\ UNCHANGED <<config_vars, plex, identity_vars, sections, cache_vars,
                   on_deck_window, clock, provider_vars, readers>>

\* the guarded accessors of the client
Accessors == {"is_admin", "user_id", "display_name", "account", "user_client"}

\* the field an accessor tests and returns
AccessedField(name) ==
    CASE name = "is_admin" -> is_admin
      [] name = "user_id" -> user_id
      [] name = "display_name" -> display_name
      [] name = "account" -> account
      [] name = "user_client" ->
            IF user_client = NoHandle THEN None ELSE Some(user_client)

\* PlexClient.is_admin, user_id, display_name, account, user_client
Access(name) ==
    /\ last' = IF AccessedField(name) = None THEN NotInitialized(name)
               ELSE [op |-> name, error |-> "", result |-> AccessedField(name)[1]]
    /\ UNCHANGED <<config_vars, plex, identity_vars, sections, cache_vars,
                   on_deck_window, clock, provider_vars, call_vars>>

\* get_history with a fetch_history that lets the remote's exception through
GetHistoryRaising ==
    /\ last' = IF admin_client = NoHandle THEN NotInitialized("get_history")
               ELSE IF plex.history.raises
               THEN [op |-> "get_history", error |-> "Exception"]
               ELSE LET plex_history == FetchHistory(plex.history) IN
                    [op |-> "get_history", error |-> "",
                     account_id |-> HistoryAccountId(is_admin, user_id),
                     query |-> [ratingKey |-> plex.item.ratingKey,
                                accountID |-> HistoryAccountId(is_admin, user_id),
                                librarySectionID |-> plex.item.librarySectionID],
                     plex_history |-> plex_history,
                     result |-> GetHistoryResult(plex.item, plex_history)]
    /\ UNCHANGED <<config_vars, plex, identity_vars, sections, cache_vars,
                   on_deck_window, clock, provider_vars, call_vars>>

\* PlexLibraryProvider.get_history(item) for the item and the history log of
\* the remote
GetHistory ==
    /\ last' = IF admin_client = NoHandle THEN NotInitialized("get_history")
               ELSE LET plex_history == FetchHistory(plex.history) IN
                    [op |-> "get_history", error |-> "",
                     account_id |-> HistoryAccountId(is_admin, user_id),
                     query |-> [ratingKey |-> plex.item.ratingKey,
                                accountID |-> HistoryAccountId(is_admin, user_id),
                                librarySectionID |-> plex.item.librarySectionID],
                     plex_history |-> plex_history,
                     result |-> GetHistoryResult(plex.item, plex_history)]
    /\ UNCHANGED <<config_vars, plex, identity_vars, sections, cache_vars,
                   on_deck_window, clock, provider_vars, call_vars>>

\* PlexLibraryProvider.parse_webhook for a request that decodes to payload
ParseWebhook(payload) ==
    /\ last' = LET r == ParseWebhookResult(payload, provider_user) IN
               [op |-> "parse_webhook", payload |-> payload, error |-> r.error,
                message |-> r.message, sync |-> r.sync, keys |-> r.keys]
    /\ UNCHANGED <<config_vars, plex, identity_vars, sections, cache_vars,
                   on_deck_window, clock, provider_vars, call_vars>>

----------------------------------------------------------------------------
(* The client: lifecycle and both caches *)

\* a client configured without a section or a genre allowlist
NoFilters ==
    /\ section_filter = SectionFilter({})
    /\ genre_filter = <<>>

ClientInit ==
    /\ admin_client = NoHandle
    /\ user_client = NoHandle
    /\ account = None
    /\ user_id = None
    /\ display_name = None
    /\ is_admin = None
    /\ sections = <<>>
    /\ continue_cache = EmptyCache
    /\ ordering_cache = EmptyCache
    /\ watchlist_cache = None
    /\ on_deck_window = None
    /\ clock = 0
    /\ session = None
    /\ provider_user = None
    /\ community_client = None
    /\ is_admin_user = FALSE
    /\ request = NoRequest
    /\ readers = [r \in Readers |-> Idle]
    /\ last = Ok("construct")

Init ==
    /\ cfg_user \in {None, Some(<<"b">>)}
    /\ plex = [account |-> TheAccount, users |-> TheUsers, switch_fails |-> FALSE,
               item |-> TheItem, history |-> TheHistory]
    /\ NoFilters
    /\ cfg_url = TheUrl
    /\ ClientInit

DoInitialize(Ls, Ws) == \E listing \in Ls, window \in Ws : Initialize(listing, window)

ReadContinueWatching(Secs) ==
    \E s \in Secs, i \in RatingKeys, out \in ContinueOutcomes, d \in Elapsed :
        IsOnContinueWatching(s, i, out, d)

ReadWatchlist ==
    \E g \in {None} \cup {Some(x) : x \in Guids}, out \in WatchlistOutcomes, d \in Elapsed :
        IsOnWatchlist(g, out, d)

Next ==
    \/ DoInitialize({TheListing}, {Some(1)})
    \/ Close
    \/ ClearCache
    \/ Tick
    \/ AccountRenamed
    \/ ReadContinueWatching({1})
    \/ ReadWatchlist

Spec == Init /\ [][Next]_vars

----------------------------------------------------------------------------
(* The continue-watching cache over several sections *)

NextContinue ==
    \/ DoInitialize({TheListing}, {Some(1)})
    \/ Close
    \/ ClearCache
    \/ Tick
    \/ ReadContinueWatching(SectionIds)

SpecContinue == Init /\ [][NextContinue]_vars

----------------------------------------------------------------------------
(* History reconciliation over many items and history logs *)

InitHistory ==
    /\ cfg_user \in {None, Some(<<"b">>)}
    /\ plex \in [account : {TheAccount}, users : {TheUsers}, switch_fails : {FALSE},
                  item : Items, history : HistoryOutcomes]
    /\ NoFilters
    /\ cfg_url = TheUrl
    /\ ClientInit

NextHistory ==
    \/ DoInitialize({TheListing}, {Some(1)})
    \/ Close
    \/ GetHistory

SpecHistory == InitHistory /\ [][NextHistory]_vars

----------------------------------------------------------------------------
(* Webhooks against every state of the provider *)

NextWebhook ==
    \/ DoInitialize({TheListing}, {Some(1)})
    \/ Close
    \/ \E payload \in Payloads : ParseWebhook(payload)

SpecWebhook == Init /\ [][NextWebhook]_vars

----------------------------------------------------------------------------
(* Claims about the caches *)

ContinueRead == last.op = "is_on_continue_watching" /\ last.error = ""
WatchlistRead == last.op = "is_on_watchlist" /\ last.error = ""

\* C1: a continue-watching read calls section.continueWatching() exactly once
\* when the section has no entry or its entry has expires_at <= now, and not at
\* all otherwise; and a read that directly follows a read of the same section
\* (no clock advance, no clear_cache in between) makes no call, so that a run of
\* such reads makes one call in total when it starts on a miss.
C1_ContinueReadThrough ==
    /\ [](ContinueRead =>
            last.calls = IF last.pre = None \/ last.pre[1].expires_at <= last.now
                         THEN 1 ELSE 0)
    /\ [][(ContinueRead /\ ContinueRead' /\ last'.section = last.section)
            => last'.calls = 0]_vars

\* a stale entry, read at the very instant it expires, was refreshed
C1_Witness ==
    /\ ContinueRead
    /\ last.pre # None
    /\ last.pre[1].expires_at = last.now
    /\ last.calls = 1

\* C2: for an admin, a watchlist read calls account.watchlist() exactly once
\* when the entry is absent or has expires_at <= now and never while
\* expires_at > now; and every entry a refresh of either cache stores expires
\* exactly 300 seconds after the monotonic time at which it is stored.
C2_WatchlistTTL ==
    /\ (WatchlistRead /\ is_admin = Some(TRUE)) =>
          last.calls = IF last.pre = None \/ last.pre[1].expires_at <= last.now
                       THEN 1 ELSE 0
    /\ (WatchlistRead /\ last.calls = 1) =>
          watchlist_cache[1].expires_at = clock + 300
    /\ (ContinueRead /\ last.calls = 1) =>
          continue_cache[IntToStr(last.section)].expires_at = clock + 300

\* an admin's stale watchlist entry was refreshed by a call that took time
C2_Witness ==
    /\ WatchlistRead
    /\ is_admin = Some(TRUE)
    /\ last.pre # None
    /\ last.calls = 1
    /\ last.now < clock

\* C3: on an initialized client, when section.continueWatching() raises during
\* a refresh, the read does not raise and answers False, and the entry stored
\* for the section is the empty set, whatever was yielded before the failure.
C3_ContinueFailOpen ==
    (last.op = "is_on_continue_watching" /\ user_client # NoHandle) =>
        /\ last.error = ""
        /\ last.source_raised =>
              /\ ~last.result
              /\ continue_cache[IntToStr(last.section)].keys = {}

\* the source raised after it had yielded items, over an entry that had keys
C3_Witness ==
    /\ ContinueRead
    /\ last.source_raised
    /\ last.yielded > 0
    /\ last.pre # None
    /\ last.pre[1].keys # {}

\* C4: for a non-admin identity a watchlist read answers False, makes no call
\* to account.watchlist() and leaves the watchlist entry as it was.
C4_WatchlistAdminGate ==
    (last.op = "is_on_watchlist" /\ is_admin = Some(FALSE)) =>
        /\ last.error = ""
        /\ ~last.result
        /\ last.calls = 0
        /\ watchlist_cache = last.pre

\* a non-admin asked about an item that the cached watchlist holds
C4_Witness ==
    /\ WatchlistRead
    /\ is_admin = Some(FALSE)
    /\ watchlist_cache # None
    /\ last.guid # None
    /\ last.guid[1] \in watchlist_cache[1].keys

----------------------------------------------------------------------------
(* Identity resolution over many configurations and remotes *)

RequestedStrings ==
    {None, Some(<<>>), Some(<<" ">>), Some(<<"a">>), Some(<<" ", "A", " ">>),
     Some(<<"b">>), Some(<<"B", " ">>), Some(<<"c">>), Some(<<"d">>)}

Accounts ==
    {[username |-> Some(<<"A">>), email |-> None, title |-> Some(<<"A">>), id |-> 1],
     [username |-> None, email |-> Some(<<>>), title |-> Some(<<"a">>), id |-> 1],
     [username |-> None, email |-> None, title |-> None, id |-> 1],
     [username |-> None, email |-> None, title |-> Some(<<"B">>), id |-> 1]}

UserProfiles ==
    {[username |-> Some(<<"B">>), email |-> None, title |-> None],
     [username |-> None, email |-> Some(<<"b">>), title |-> None],
     [username |-> Some(<<>>), email |-> None, title |-> Some(<<"B">>)],
     [username |-> None, email |-> None, title |-> None],
     [username |-> Some(<<"c">>), email |-> Some(<<"b">>), title |-> None],
     [username |-> None, email |-> Some(<<>>), title |-> Some(<<"C">>)]}

\* account.users(): up to MaxUsers managed users, the i-th with id i + 1
UserLists ==
    {[i \in DOMAIN ps |->
        [username |-> ps[i].username, email |-> ps[i].email,
         title |-> ps[i].title, id |-> i + 1]] : ps \in SeqsUpTo(UserProfiles, MaxUsers)}

InitIdentity ==
    /\ cfg_user \in RequestedStrings
    /\ plex \in [account : Accounts, users : UserLists, switch_fails : BOOLEAN,
                  item : {TheItem}, history : {TheHistory}]
    /\ NoFilters
    /\ cfg_url = TheUrl
    /\ ClientInit

NextIdentity ==
    \/ DoInitialize({TheListing}, {Some(1)})
    \/ Close

SpecIdentity == InitIdentity /\ [][NextIdentity]_vars

----------------------------------------------------------------------------
(* Claims about identity resolution *)

Initialized == last.op = "initialize" /\ last.ok
InitializeFailed == last.op = "initialize" /\ ~last.ok

\* the requested string, trimmed; "" when there is none
Trimmed == IF cfg_user = None THEN <<>> ELSE Strip(cfg_user[1])

NonEmpty(f) == f # None /\ f[1] # <<>>

\* the requested string is empty or is, up to case, a name of the account
SelfRequested ==
    \/ Trimmed = <<>>
    \/ \E f \in {plex.account.username, plex.account.email, plex.account.title} :
          NonEmpty(f) /\ Lower(f[1]) = Lower(Trimmed)

\* the managed user at index i carries the requested string, up to case
ManagedMatch(i) ==
    \E f \in {plex.users[i].username, plex.users[i].email, plex.users[i].title} :
        f # None /\ Lower(f[1]) = Lower(Trimmed)

FirstMatch(i) == ManagedMatch(i) /\ \A j \in 1..(i - 1) : ~ManagedMatch(j)

HasLogin(u) == NonEmpty(u.username) \/ NonEmpty(u.email) \/ NonEmpty(u.title)

\* the first non-empty of username, email, title
FirstNonEmpty(u) ==
    IF NonEmpty(u.username) THEN u.username[1]
    ELSE IF NonEmpty(u.email) THEN u.email[1] ELSE u.title[1]

\* C8: after a successful identity resolution is_admin is true iff no user was
\* impersonated, the user session is the admin session iff is_admin, and the
\* user id is the impersonated user's when impersonating and the account's
\* otherwise.
C8_BundleInvariant ==
    Initialized =>
        /\ is_admin = Some(last.target_user = None)
        /\ (user_client = admin_client) <=> (is_admin = Some(TRUE))
        /\ user_id = IF last.target_user # None THEN Some(last.target_user[1].id)
                     ELSE Some(plex.account.id)
        /\ (last.target_user = None) <=> SelfRequested

\* a managed user was impersonated
C8_Witness ==
    /\ Initialized
    /\ last.target_user # None
    /\ is_admin = Some(FALSE)
    /\ user_id # Some(plex.account.id)

\* C9: a requested string that is empty after trimming, or equals the account's
\* username, email or title up to case, resolves as the account itself: no
\* search of the managed users, no switch, is_admin true, the account's id.
C9_SelfMatch ==
    (last.op = "initialize" /\ SelfRequested) =>
        /\ last.ok
        /\ ~last.searched
        /\ ~last.switched
        /\ is_admin = Some(TRUE)
        /\ user_client = admin_client
        /\ user_id = Some(plex.account.id)

\* the request differs in case from the account's name, and a managed user
\* carries the same name
C9_Witness ==
    /\ Initialized
    /\ Trimmed # <<>>
    /\ Trimmed \notin {OrEmpty(plex.account.username), OrEmpty(plex.account.email),
                       OrEmpty(plex.account.title)}
    /\ SelfRequested
    /\ \E i \in DOMAIN plex.users : ManagedMatch(i)
    /\ is_admin = Some(TRUE)

\* C10: for a requested user that is not the account itself, resolution fails
\* with UserNotFound naming the trimmed request exactly when no managed user
\* matches, with IdentitySwitchUnavailable exactly when the first match has no
\* non-empty username, email or title, and with IdentitySwitchFailed naming the
\* login exactly when the switch call raises; the login is the first non-empty
\* of username, email, title; a failure leaves the client without identity.
C10_ResolutionFailures ==
    (last.op = "initialize" /\ ~SelfRequested) =>
        /\ (last.error = "UserNotFound") <=> (\A i \in DOMAIN plex.users : ~ManagedMatch(i))
        /\ (last.error = "UserNotFound") => last.err_arg = Some(Trimmed)
        /\ \A i \in DOMAIN plex.users : FirstMatch(i) =>
              /\ (last.error = "IdentitySwitchUnavailable") <=> ~HasLogin(plex.users[i])
              /\ (last.error = "IdentitySwitchFailed") <=>
                    (HasLogin(plex.users[i]) /\ plex.switch_fails)
              /\ (last.error = "IdentitySwitchFailed") =>
                    last.err_arg = Some(FirstNonEmpty(plex.users[i]))
              /\ last.ok => user_client = [kind |-> "user",
                                           login |-> FirstNonEmpty(plex.users[i])]
        /\ last.ok <=> (last.error = "")
        /\ ~last.ok =>
              /\ admin_client = NoHandle /\ user_client = NoHandle
              /\ account = None /\ user_id = None
              /\ display_name = None /\ is_admin = None
              /\ sections = <<>> /\ provider_user = None

\* the switch failed for a user matched by email whose login is the username
C10_Witness ==
    /\ InitializeFailed
    /\ last.error = "IdentitySwitchFailed"
    /\ Lower(last.err_arg[1]) # Lower(Trimmed)

----------------------------------------------------------------------------
(* Claims about history reconciliation *)

HistoryRead == last.op = "get_history" /\ last.error = ""

\* the children the claim speaks of: the episodes of a show or season, the item
\* itself for a movie or an episode
Kids == IF plex.item.kind \in {"show", "season"} THEN plex.item.episodes
        ELSE <<plex.item>>

AuthoritativeKeys == {last.plex_history[i][1] : i \in DOMAIN last.plex_history}

\* how many entries precede the authoritative ones
DerivedCount == Len(last.result) - Len(last.plex_history)

\* C5: get_history returns the derived entries first and the authoritative
\* ones last; every authoritative (key, timestamp) record is there; a child has
\* a derived entry exactly when its last-viewed timestamp is non-null and its
\* key is not an authoritative key, so no key is both derived and
\* authoritative and no child contributes twice.
C5_HistoryMerge ==
    HistoryRead =>
        /\ DerivedCount >= 0
        /\ \A i \in DOMAIN last.plex_history :
              last.result[DerivedCount + i] =
                  [library_key |-> last.plex_history[i][1],
                   viewed_at |-> last.plex_history[i][2]]
        /\ \A c \in DOMAIN Kids :
              (\E i \in 1..DerivedCount :
                    last.result[i].library_key = IntToStr(Kids[c].ratingKey))
              <=> (/\ Kids[c].lastViewedAt # None
                   /\ IntToStr(Kids[c].ratingKey) \notin AuthoritativeKeys)
        /\ \A i \in 1..DerivedCount : \E c \in DOMAIN Kids :
              /\ Kids[c].lastViewedAt # None
              /\ last.result[i].library_key = IntToStr(Kids[c].ratingKey)
              /\ last.result[i].viewed_at.t = Kids[c].lastViewedAt[1].t
        /\ \A i, j \in 1..DerivedCount :
              i # j => last.result[i].library_key # last.result[j].library_key
        /\ \A i \in 1..DerivedCount :
              last.result[i].library_key \notin AuthoritativeKeys

\* two viewed children, one of them in the authoritative log: one derived
\* entry for the other, then the authoritative record
C5_Witness ==
    /\ HistoryRead
    /\ plex.item.kind = "show"
    /\ Len(Kids) = 2
    /\ \A c \in DOMAIN Kids : Kids[c].lastViewedAt # None
    /\ Len(last.plex_history) = 1
    /\ \E c \in DOMAIN Kids : IntToStr(Kids[c].ratingKey) \in AuthoritativeKeys
    /\ Len(last.result) = 2
    /\ last.result[1].library_key # last.result[2].library_key

----------------------------------------------------------------------------
(* Claims about webhooks *)

WebhookParsed == last.op = "parse_webhook"

\* the top-level key the claims speak of: grandparent, else parent, else own
ClaimedTopKey ==
    IF last.payload.grandparentRatingKey # None THEN last.payload.grandparentRatingKey
    ELSE IF last.payload.parentRatingKey # None THEN last.payload.parentRatingKey
    ELSE last.payload.ratingKey

\* the payload carries an account id and a top-level rating key
CarriesIdAndKey == last.payload.account_id # None /\ ClaimedTopKey # None

\* the payload is one the claims say triggers a sync
Accepted ==
    /\ CarriesIdAndKey
    /\ last.payload.event \in {"library.new", "media.rate", "media.scrobble"}
    /\ provider_user = Some(IntToStr(last.payload.account_id[1]))

\* C6: parse_webhook returns (True, (topLevelKey,)) exactly when the payload
\* carries an account id and a top-level rating key, its event is media-added,
\* rate or scrobble and its account id is the provider's user id; a payload
\* that carries both but fails the event or the user test gets (False, ()).
C6_WebhookAcceptance ==
    WebhookParsed =>
        /\ (last.error = "" /\ last.sync) <=> Accepted
        /\ Accepted => last.keys = <<ClaimedTopKey[1]>>
        /\ (CarriesIdAndKey /\ ~Accepted) =>
              (last.error = "" /\ ~last.sync /\ last.keys = <<>>)

\* C6, for payloads whose account id is not 0: the same statement
C6_AcceptanceForNonZeroIds ==
    (WebhookParsed /\ last.payload.account_id # Some(0)) =>
        /\ (last.error = "" /\ last.sync) <=> Accepted
        /\ Accepted => last.keys = <<ClaimedTopKey[1]>>
        /\ (CarriesIdAndKey /\ ~Accepted) =>
              (last.error = "" /\ ~last.sync /\ last.keys = <<>>)

\* C7: a payload that lacks an account id or a resolvable top-level rating key
\* is rejected with a parse error, whatever its event and whatever the state of
\* the provider; it is never answered with (False, ()) or (True, ...).
C7_WebhookRejectsMalformed ==
    (WebhookParsed /\ ~CarriesIdAndKey) =>
        /\ last.error = "ValueError"
        /\ ~last.sync
        /\ last.keys = <<>>

\* an initialized provider rejected a payload without account id whose event
\* is outside the allowlist
C7_Witness ==
    /\ WebhookParsed
    /\ provider_user # None
    /\ last.payload.account_id = None
    /\ ClaimedTopKey # None
    /\ last.payload.event = "media.play"
    /\ last.error = "ValueError"

----------------------------------------------------------------------------
(* Listing against every filter combination *)

InitListing ==
    /\ cfg_user = None
    /\ section_filter = SectionFilter({})
    /\ genre_filter \in GenreFilters
    /\ plex = [account |-> TheAccount, users |-> TheUsers, switch_fails |-> FALSE,
               item |-> TheItem, history |-> TheHistory]
    /\ cfg_url = TheUrl
    /\ ClientInit

ListItems ==
    \E type \in {"movie", "show"}, since \in {None, Some(Naive(5))},
       watched \in BOOLEAN, keys \in KeyLists, out \in SearchOutcomes :
        ListSectionItems(type, since, watched, keys, out)

NextListing ==
    \/ DoInitialize({TheListing}, {Some(1)})
    \/ Close
    \/ ClearCache
    \/ \E i \in RatingKeys :
         IsOnContinueWatching(1, i, [items |-> <<Some(2), Some(1)>>, raises |-> FALSE], 0)
    \/ ListItems

SpecListing == InitListing /\ [][NextListing]_vars

Listed == last.op = "list_section_items"

Range(seq) == {seq[i] : i \in DOMAIN seq}

ReturnedKeys == {IntToStr(last.items[i].ratingKey) : i \in DOMAIN last.items}

\* C11: whenever keys is supplied to a listing (any sequence, the empty one
\* included), every returned item has str(ratingKey) in keys.
C11_KeysAllowlist ==
    Listed /\ last.keys # None => ReturnedKeys \subseteq Range(last.keys[1])

\* the same for a non-empty keys argument only
C11_NonEmptyKeysAllowlist ==
    Listed /\ last.keys # None /\ last.keys[1] # <<>>
        => ReturnedKeys \subseteq Range(last.keys[1])

\* C12: when the remote section search raises, list_section_items returns an
\* empty sequence and raises nothing, for every combination of
\* min_last_modified, require_watched, keys and genre filter, and it changes
\* no cache or client state.
C12_ListingFailOpen ==
    /\ [](Listed /\ last.source_raised => last.error = "" /\ last.items = <<>>)
    /\ [][last'.op = "list_section_items" /\ last'.source_raised
            => UNCHANGED <<config_vars, identity_vars, sections, cache_vars,
                           on_deck_window, clock, provider_vars, call_vars>>]_vars

C12_Witness ==
    /\ Listed /\ last.source_raised
    /\ last.min_last_modified # None /\ last.require_watched
    /\ last.keys # None /\ genre_filter # <<>>
    /\ continue_cache # EmptyCache
    /\ last.items = <<>> /\ last.error = ""

\* the filters list the search was given; empty when no filters argument
PassedFilters ==
    IF "filters" \in DOMAIN last.search_kwargs THEN last.search_kwargs["filters"].and
    ELSE <<>>

FilterKind(f) ==
    IF "genre" \in DOMAIN f THEN "genre"
    ELSE IF f.or[1].op = ">>=" THEN "modified" ELSE "watched"

FilterOfKind(kind) ==
    PassedFilters[CHOOSE i \in DOMAIN PassedFilters : FilterKind(PassedFilters[i]) = kind]

PassedKinds == {FilterKind(PassedFilters[i]) : i \in DOMAIN PassedFilters}

TimeAttributes == <<"lastViewedAt", "lastRatedAt", "addedAt", "updatedAt">>
WatchAttributes == <<"viewCount", "lastViewedAt", "lastRatedAt">>
LevelsOf(type) == IF type = "movie" THEN <<"">> ELSE <<"show", "season", "episode">>

\* clause i of an OR over every level and every attribute, level by level
LevelAt(type, attrs, i) == LevelsOf(type)[((i - 1) \div Len(attrs)) + 1]
AttrAt(attrs, i) == attrs[((i - 1) % Len(attrs)) + 1]

\* C18: the modified-since filter is one OR of exactly 4 `attribute >=
\* threshold` clauses (lastViewedAt, lastRatedAt, addedAt, updatedAt) for a
\* movie section and exactly 12 for a show section (the 4 attributes under the
\* show, season and episode prefixes), all against the same threshold; the
\* watched filter is one OR of 3 clauses (viewCount, lastViewedAt,
\* lastRatedAt) for a movie section and 9 for a show section.
C18_FilterShape ==
    Listed =>
        /\ last.min_last_modified # None =>
             LET f == FilterOfKind("modified")
                 threshold == [t |-> last.min_last_modified[1].t, aware |-> TRUE]
             IN  /\ DOMAIN f = {"or"}
                 /\ Len(f.or) = IF last.type = "movie" THEN 4 ELSE 12
                 /\ \A i \in DOMAIN f.or :
                      f.or[i] = [level |-> LevelAt(last.type, TimeAttributes, i),
                                 attr |-> AttrAt(TimeAttributes, i),
                                 op |-> ">>=", value |-> threshold]
        /\ last.require_watched =>
             LET f == FilterOfKind("watched")
             IN  /\ DOMAIN f = {"or"}
                 /\ Len(f.or) = IF last.type = "movie" THEN 3 ELSE 9
                 /\ \A i \in DOMAIN f.or :
                      /\ f.or[i].level = LevelAt(last.type, WatchAttributes, i)
                      /\ f.or[i].attr = AttrAt(WatchAttributes, i)
                      /\ f.or[i].op = ">>"
                      /\ f.or[i].value = IF f.or[i].attr = "viewCount"
                                         THEN ZeroViews ELSE Epoch

C18_Witness ==
    /\ Listed /\ last.type = "show"
    /\ last.min_last_modified # None /\ last.require_watched
    /\ Len(FilterOfKind("modified").or) = 12
    /\ Len(FilterOfKind("watched").or) = 9

KindRank(kind) == CASE kind = "modified" -> 1 [] kind = "watched" -> 2 [] kind = "genre" -> 3

\* C19: the AND list passed to the search holds, in this order, the modified
\* filter iff min_last_modified is given, the watched filter iff
\* require_watched, and the genre clause iff the genre filter is non-empty;
\* when none applies no filters argument is passed at all.
C19_FilterOrder ==
    Listed =>
        /\ DOMAIN last.search_kwargs \subseteq {"filters"}
        /\ "filters" \in DOMAIN last.search_kwargs =>
             /\ DOMAIN last.search_kwargs["filters"] = {"and"}
             /\ PassedFilters # <<>>
        /\ ("modified" \in PassedKinds) = (last.min_last_modified # None)
        /\ ("watched" \in PassedKinds) = last.require_watched
        /\ ("genre" \in PassedKinds) = (genre_filter # <<>>)
        /\ \A i, j \in DOMAIN PassedFilters :
             i < j => KindRank(FilterKind(PassedFilters[i]))
                        < KindRank(FilterKind(PassedFilters[j]))
        /\ genre_filter # <<>> =>
             PassedFilters[Len(PassedFilters)] = [genre |-> genre_filter]

C19_Witness ==
    /\ Listed
    /\ last.min_last_modified # None /\ last.require_watched /\ genre_filter # <<>>
    /\ Len(PassedFilters) = 3
    /\ FilterKind(PassedFilters[3]) = "genre"

----------------------------------------------------------------------------
(* Claims about clear_cache() and re-initialization *)

JustCleared == last.op = "clear_cache" \/ (last.op = "initialize" /\ last.ok)

\* C13: clear_cache() resets every cached remote response, the watchlist
\* entry included: the first is_on_watchlist call of an admin identity after
\* clear_cache() or after a re-initialization invokes the watchlist source
\* again and does not answer from an entry fetched before.
C13_ClearResetsWatchlist ==
    [][JustCleared /\ is_admin = Some(TRUE)
        /\ last'.op = "is_on_watchlist" /\ last'.error = ""
            => last'.calls = 1]_vars

----------------------------------------------------------------------------
(* The ordering cache, with the continue-watching cache beside it *)

\* the values of a showOrdering preference
OrderingValues == {"tmdbAiring", "tvdbAiring", "aired", "absolute", ""}

\* the section-level setting: absent, or one of the values
OrderingSettings == {None} \cup {Some(v) : v \in OrderingValues}

\* the setting of the second section, which changes less
OtherSettings == {None, Some("tmdbAiring")}

\* the shows get_ordering is asked about
Shows == [showOrdering : OrderingSettings, librarySectionID : SectionIds]

InitOrdering ==
    /\ cfg_user = None
    /\ NoFilters
    /\ \E s1 \in OrderingSettings, s2 \in OtherSettings :
         plex = [account |-> TheAccount, users |-> TheUsers, switch_fails |-> FALSE,
                 item |-> TheItem, history |-> TheHistory,
                 settings |-> [s \in SectionIds |-> IF s = 1 THEN s1 ELSE s2]]
    /\ cfg_url = TheUrl
    /\ ClientInit

NextOrdering ==
    \/ DoInitialize({TheListing}, {Some(1)})
    \/ Close
    \/ ClearCache
    \/ IsOnContinueWatching(1, 1, [items |-> <<Some(2), Some(1)>>, raises |-> FALSE], 0)
    \/ \E show \in Shows, raises \in BOOLEAN : GetOrdering(show, raises)
    \/ \E s1 \in OrderingSettings : SectionSettingChanged(1, s1)
    \/ \E s2 \in OtherSettings : SectionSettingChanged(2, s2)

SpecOrdering == InitOrdering /\ [][NextOrdering]_vars

OrderingLookup == last.op = "get_ordering" /\ last.error = ""

\* C14: after initialize() completes and after every clear_cache(), the
\* continue-watching cache and the ordering cache are both empty whatever they
\* held, so the next continue-watching read and the next section-level
\* ordering lookup, for any section, go to the remote source.
C14_ClearEmptiesCaches ==
    /\ [](JustCleared => continue_cache = EmptyCache /\ ordering_cache = EmptyCache)
    /\ [][JustCleared /\ last'.op = "is_on_continue_watching" /\ last'.error = ""
            => last'.calls = 1]_vars
    /\ [][JustCleared /\ last'.op = "get_ordering" /\ ~HasOverride(last'.show)
            => last'.calls = 1]_vars

C14_Witness ==
    /\ last.op = "clear_cache"
    /\ last.held.continue # {}
    /\ last.held.ordering = SectionIds
    /\ continue_cache = EmptyCache
    /\ ordering_cache = EmptyCache

\* the ordering the claim gives for a preference value
Mapped(value) ==
    CASE value = "tmdbAiring" -> "tmdb"
      [] value = "tvdbAiring" -> "tvdb"
      [] value = "aired" -> "tvdb"
      [] OTHER -> ""

\* C17: get_ordering maps tmdbAiring to "tmdb", tvdbAiring and aired to
\* "tvdb", and every other value (the empty one and a missing section setting
\* included) to ""; a non-empty per-show override always decides the result,
\* whatever the section setting or the cached section value is.
C17_OrderingMapping ==
    /\ \A k \in DOMAIN ordering_cache : ordering_cache[k] \in {"tmdb", "tvdb", ""}
    /\ OrderingLookup =>
         IF HasOverride(last.show)
         THEN /\ last.result = Mapped(last.show.showOrdering[1])
              /\ last.calls = 0
         ELSE IF last.calls = 1
         THEN /\ last.pre = None
              /\ last.result = IF last.setting = None THEN "" ELSE Mapped(last.setting[1])
         ELSE /\ last.pre # None
              /\ last.result = last.pre[1]

C17_Witness ==
    /\ OrderingLookup
    /\ last.show.showOrdering = Some("aired")
    /\ last.pre = Some("tmdb")
    /\ plex.settings[last.show.librarySectionID] = Some("absolute")
    /\ last.result = "tvdb"

----------------------------------------------------------------------------
(* Section enumeration over several listings and allowlists *)

\* the section_filter a client is configured with
SectionAllowlists == {{}, {<<"A">>}, {<<"C">>}, {<<"B">>, <<"c">>}}

InitSections ==
    /\ cfg_user \in {None, Some(<<"a">>), Some(<<"b">>)}
    /\ \E titles \in SectionAllowlists : section_filter = SectionFilter(titles)
    /\ genre_filter = <<>>
    /\ plex = [account |-> TheAccount, users |-> TheUsers, switch_fails |-> FALSE,
               item |-> TheItem, history |-> TheHistory]
    /\ cfg_url = TheUrl
    /\ ClientInit

NextSections ==
    \/ DoInitialize(Listings, {Some(1)})
    \/ Close
    \/ ClearCache
    \/ AccountRenamed
    \/ IsOnContinueWatching(1, 1, [items |-> <<Some(2), Some(1)>>, raises |-> FALSE], 0)
    \/ ListSectionItems("movie", None, FALSE, None,
                        [results |-> <<>>, raises |-> FALSE])

SpecSections == InitSections /\ [][NextSections]_vars

\* the title is in the allowlist the client was configured with, whatever
\* the case of either
InAllowlist(title) ==
    \E titles \in SectionAllowlists :
        /\ section_filter = SectionFilter(titles)
        /\ titles = {} \/ \E t \in titles : Lower(t) = Lower(title)

Enumerated(raw) == raw.kind \in {"movie", "show"} /\ InAllowlist(raw.title)

\* C15: sections are replaced, never merged: after a successful initialize
\* the section list is exactly the movie- and show-kind sections of that
\* enumeration whose title is in the case-insensitive allowlist (all of them
\* when the allowlist is empty), and no operation other than initialize and
\* close changes the list.
C15_SectionsReplaced ==
    /\ [](last.op = "initialize" /\ last.ok
            => sections = SelectSeq(last.listing, Enumerated))
    /\ [][\/ last'.op = "initialize" /\ last'.ok
          \/ last'.op = "close"
          \/ sections' = sections]_vars

C15_Witness ==
    /\ last.op = "initialize" /\ last.ok
    /\ last.replaced # <<>>
    /\ sections # <<>>
    /\ \A i \in DOMAIN last.replaced, j \in DOMAIN sections :
         last.replaced[i] # sections[j]
    /\ \E i \in DOMAIN last.listing :
         /\ last.listing[i].kind \in {"movie", "show"}
         /\ \A j \in DOMAIN sections : sections[j] # last.listing[i]
    /\ \E j \in DOMAIN sections : sections[j].title \notin section_filter

----------------------------------------------------------------------------
(* The history query for several accounts, items and history logs *)

\* an owner account whose plex.tv id is not 1
OtherAccount == [username |-> Some(<<"A">>), email |-> None, title |-> Some(<<"A">>), id |-> 7]

\* the items fetch_history is asked about
QueriedItems ==
    [kind : {"movie"}, ratingKey : RatingKeys, librarySectionID : SectionIds,
     lastViewedAt : {None}, episodes : {<<>>}]

InitFetch ==
    /\ cfg_user \in {None, Some(<<"b">>)}
    /\ NoFilters
    /\ plex \in [account : {TheAccount, OtherAccount}, users : {TheUsers},
                 switch_fails : {FALSE}, item : QueriedItems,
                 history : HistoryOutcomes]
    /\ cfg_url = TheUrl
    /\ ClientInit

NextFetch ==
    \/ DoInitialize({TheListing}, {Some(1)})
    \/ Close
    \/ GetHistory

SpecFetch == InitFetch /\ [][NextFetch]_vars

Viewed(record) == record.viewedAt # None

\* the records of the log that carry a viewed-at timestamp, in source order
ViewedRecords == SelectSeq(plex.history.records, Viewed)

\* the item's rating key and section id are in the query, and the answer is
\* the viewed records as (string key, timestamp) pairs in source order
QueriesItemAndPairs ==
    /\ last.query.ratingKey = plex.item.ratingKey
    /\ last.query.librarySectionID = plex.item.librarySectionID
    /\ ~plex.history.raises =>
         /\ Len(last.plex_history) = Len(ViewedRecords)
         /\ \A i \in DOMAIN ViewedRecords :
              /\ last.plex_history[i][1] = IntToStr(ViewedRecords[i].ratingKey)
              /\ last.plex_history[i][2].t = ViewedRecords[i].viewedAt[1].t

\* C16: fetch_history queries the history log by the admin account's own id
\* when the resolved identity is admin and by the impersonated user's id
\* otherwise, together with the item's rating key and section id; records
\* without a viewed-at timestamp are dropped and the rest are returned as
\* (string key, timestamp) pairs in source order.
C16_HistoryQuery ==
    HistoryRead =>
        /\ last.query.accountID = IF is_admin = Some(TRUE) THEN account[1].id
                                  ELSE user_id[1]
        /\ QueriesItemAndPairs

\* C16 as amended: the account id of the query is the constant 1 when the
\* resolved identity is admin, whatever the id of the admin account is, and
\* the impersonated user's id otherwise.
C16_HistoryQueryOwner ==
    HistoryRead =>
        /\ last.query.accountID = IF is_admin = Some(TRUE) THEN 1 ELSE user_id[1]
        /\ QueriesItemAndPairs

C16_Witness ==
    /\ HistoryRead
    /\ is_admin = Some(TRUE)
    /\ account[1].id # 1
    /\ last.query.accountID = 1
    /\ Len(plex.history.records) = 2
    /\ Len(last.plex_history) = 1
    /\ plex.item.librarySectionID = 2

----------------------------------------------------------------------------
(* External ids over many guid lists and every media kind *)

MaxGuids == 2

\* the guid tags of an item
GuidTags ==
    {<<"tmdb", "://", "1">>,
     <<"tvdb", "://", "2">>,
     <<"com.plexapp.agents.thetvdb", "://", "3", "?", "lang=en">>,
     <<"com.plexapp.agents.themoviedb", "://", "4", "?", "lang=en">>,
     <<"tmdb", "://", "5", "?", "x">>,
     <<"imdb", "://", "tt6">>,
     <<"local", "://", "7">>,
     <<"tmdb", "8">>,
     <<>>}

\* the wrappers ids() is called on: the kind of the wrapper and its item
MediaItems ==
    [kind : {"movie", "show", "season", "episode"},
     item : [guids : SeqsUpTo(GuidTags, MaxGuids),
             guid : {None, Some(<<"plex", "://", "movie", "/", "abc">>)}]]

InitIds ==
    /\ cfg_user = None
    /\ NoFilters
    /\ plex \in [account : {TheAccount}, users : {TheUsers}, switch_fails : {FALSE},
                 item : {TheItem}, history : {TheHistory}, media : MediaItems]
    /\ cfg_url = TheUrl
    /\ ClientInit

NextIds == Ids

SpecIds == InitIds /\ [][NextIds]_vars

IdsRead == last.op = "ids"

TheGuids == plex.media.item.guids

\* the scheme of a tag: what stands before "://"; "" when the tag has none
SchemeOf(tag) == IF Len(tag) >= 3 /\ tag[2] = "://" THEN tag[1] ELSE ""

\* the namespace the claim gives a scheme on a wrapper of a kind; "" for a
\* scheme that contributes nothing
ClaimedNamespace(scheme, kind) ==
    CASE scheme \in {"tmdb", "com.plexapp.agents.themoviedb", "com.plexapp.agents.tmdb"}
           -> (IF kind = "movie" THEN "tmdb_movie" ELSE "tmdb_show")
      [] scheme \in {"tvdb", "com.plexapp.agents.thetvdb"}
           -> (IF kind = "movie" THEN "tvdb_movie" ELSE "tvdb_show")
      [] scheme \in {"imdb", "com.plexapp.agents.imdb"} -> "imdb"
      [] OTHER -> ""

NamespaceAt(i) == ClaimedNamespace(SchemeOf(TheGuids[i]), plex.media.kind)

\* the legacy scheme of a tag replaced by the modern one
Modernised(tag) ==
    IF SchemeOf(tag) = "com.plexapp.agents.thetvdb" THEN <<"tvdb">> \o Tail(tag)
    ELSE IF SchemeOf(tag) = "com.plexapp.agents.themoviedb" THEN <<"tmdb">> \o Tail(tag)
    ELSE tag

\* C20: ids() resolves a tmdb (tvdb) tag to tmdb_movie (tvdb_movie) on a movie
\* wrapper and to tmdb_show (tvdb_show) on every other kind; a legacy scheme
\* resolves to the same namespace and value as the modern one; unknown schemes
\* and tags without "://" contribute nothing; the first tag seen for a
\* namespace wins.
C20_IdNamespaces ==
    IdsRead =>
        /\ DOMAIN last.result \ {"plex"}
             = {NamespaceAt(i) : i \in DOMAIN TheGuids} \ {""}
        /\ \A i \in DOMAIN TheGuids :
             /\ NamespaceAt(i) # ""
             /\ \A j \in 1..(i - 1) : NamespaceAt(j) # NamespaceAt(i)
             => last.result[NamespaceAt(i)] = <<TheGuids[i][3]>>
        /\ last.result =
             IdsOf([plex.media.item EXCEPT
                      !.guids = [i \in DOMAIN TheGuids |-> Modernised(TheGuids[i])]],
                   plex.media.kind)

C20_Witness ==
    /\ IdsRead
    /\ plex.media.kind = "episode"
    /\ Len(TheGuids) = 2
    /\ SchemeOf(TheGuids[1]) = "com.plexapp.agents.thetvdb"
    /\ SchemeOf(TheGuids[2]) = "tvdb"
    /\ last.result["tvdb_show"] = <<"3">>

----------------------------------------------------------------------------
(* The session of the admin client for several server URLs *)

\* the server URLs a client is configured with
ServerUrls == [scheme : {"http", "https"}, hostname : {"plex.example", "nas.local", "10.0.0.2"}]

\* the hosts requests go to: the servers and the cloud account API
RequestHosts == {"plex.example", "nas.local", "10.0.0.2", "plex.tv"}

InitSession ==
    /\ cfg_url \in ServerUrls
    /\ cfg_user \in {None, Some(<<"b">>)}
    /\ NoFilters
    /\ plex = [account |-> TheAccount, users |-> TheUsers, switch_fails |-> FALSE,
               item |-> TheItem, history |-> TheHistory]
    /\ ClientInit

NextSession ==
    \/ DoInitialize({TheListing}, {Some(1)})
    \/ Close
    \/ ClearCache
    \/ \E host \in RequestHosts : Request(host)

SpecSession == InitSession /\ [][NextSession]_vars

\* C21: certificate verification is skipped only for requests to the
\* configured server's own hostname and only when the server URL scheme is
\* https: for an http URL no override session is created, the allowlist holds
\* exactly the server hostname, and a request to any other host keeps the
\* default verification.
C21_SelectiveVerification ==
    /\ admin_client = NoHandle => session = None
    /\ admin_client # NoHandle =>
         /\ (session # None) = (cfg_url.scheme = "https")
         /\ session # None => session[1].whitelist = {cfg_url.hostname}
    /\ last.op = "request" =>
         (last.verify = "skipped")
            = (cfg_url.scheme = "https" /\ last.host = cfg_url.hostname)

C21_Witness ==
    /\ last.op = "request"
    /\ cfg_url.scheme = "https"
    /\ session # None
    /\ last.host = "plex.tv"
    /\ last.verify = "default"

----------------------------------------------------------------------------
(* Reviews against every state of the provider *)

\* the items get_review is asked about
ReviewItems ==
    [userRating : {None, Some(8)},
     lastRatedAt : {None, Some(Naive(10))},
     guid : {None, Some(<<>>), Some(<<"plex", "://", "movie", "/", "abc">>),
             Some(<<"plex", "://", "xyz">>)}]

\* what get_reviews(metadata_id) may do: return a review or None, or raise
ReviewOutcomes ==
    {[raises |-> FALSE, review |-> rv] : rv \in {None, Some("good")}}
    \cup {[raises |-> TRUE, review |-> None]}

NextReview ==
    \/ DoInitialize({TheListing}, {Some(1)})
    \/ Close
    \/ \E item \in ReviewItems, out \in ReviewOutcomes : GetReview(item, out)

SpecReview == Init /\ [][NextReview]_vars

Reviewed == last.op = "get_review"

\* one of the cases in which the claim says there is no review
NoReviewCase ==
    \/ is_admin # Some(TRUE)
    \/ admin_client = NoHandle
    \/ last.item.userRating = None /\ last.item.lastRatedAt = None
    \/ last.item.guid = None \/ last.item.guid[1] = <<>>
    \/ last.source_raised

\* C22: get_review never raises: it returns None when the identity is not
\* admin, when there is no community client (before initialize, after close),
\* when the item has neither a user rating nor a last-rated timestamp, when it
\* has no guid, and when the community client's call fails; otherwise it
\* returns the review looked up by the guid's suffix after the last separator.
C22_ReviewFailOpen ==
    /\ (community_client = None) = (admin_client = NoHandle)
    /\ Reviewed =>
         /\ last.error = ""
         /\ IF NoReviewCase
            THEN last.result = None
            ELSE /\ last.calls = 1
                 /\ last.metadata_id
                      = Some(<<last.item.guid[1][Len(last.item.guid[1])]>>)
                 /\ last.result = last.offered

C22_Witness ==
    /\ Reviewed
    /\ is_admin = Some(TRUE)
    /\ last.item.userRating = None /\ last.item.lastRatedAt # None
    /\ last.metadata_id = Some(<<"abc">>)
    /\ last.source_raised
    /\ last.result = None

----------------------------------------------------------------------------
(* The community client's request under every response sequence *)

\* the responses of the community API
Responses ==
    {[status |-> "ok", payload |-> "data", retry_after |-> None],
     [status |-> "error", payload |-> "", retry_after |-> None]}
    \cup {[status |-> "rate_limited", payload |-> "", retry_after |-> ra] :
            ra \in {None, Some(2), Some(5)}}

AnyResponse == \E response \in Responses : Respond(response)

NextCommunity ==
    \/ DoInitialize({TheListing}, {Some(1)})
    \/ StartRequest
    \/ AnyResponse
    \/ Wake

\* every attempt is answered, by the server or by the transport's error, and
\* every sleep ends
SpecCommunity ==
    Init /\ [][NextCommunity]_vars /\ WF_vars(AnyResponse) /\ WF_vars(Wake)

Running == request.state \in {"sending", "sleeping"}
Ended == request.state \in {"done", "failed"}

\* C23: the community client's request terminates under every response
\* sequence: on a rate-limit response it sleeps for the server-advised delay
\* and retries, a successful response on any attempt within the bound is
\* returned, and under rate-limit responses that never stop it gives up after
\* a bounded number of attempts and surfaces a failure.
C23_RequestTerminates ==
    /\ [](Running \/ Ended =>
            /\ request.attempt \in 1..RetryLimit
            /\ Len(request.slept) = request.attempt - 1)
    /\ [](request.state = "sleeping" =>
            request.delay = IF request.advised # None
                            THEN request.advised[1] ELSE DefaultDelay)
    /\ [](request.state = "sleeping" /\ last.op = "response" =>
            /\ last.response.status = "rate_limited"
            /\ request.advised = last.response.retry_after)
    /\ [](request.state = "done" /\ last.op = "response" =>
            /\ last.response.status = "ok"
            /\ request.result = last.response.payload)
    /\ [](request.state = "failed" /\ request.why = "rate_limited" =>
            request.attempt = RetryLimit)
    /\ [][request.state = "sending" /\ last'.op = "response"
            /\ last'.response.status = "ok" => request'.state = "done"]_vars
    /\ (request.state = "sending" ~> Ended)
    /\ (Running ~> Ended)

C23_Witness ==
    /\ request.state = "failed"
    /\ request.why = "rate_limited"
    /\ request.attempt = RetryLimit
    /\ request.slept = <<5, DefaultDelay>>

----------------------------------------------------------------------------
(* Claims about a failing history call *)

\* the entries of the children that were viewed, in the children's order
RECURSIVE ViewedEntries(_)
ViewedEntries(kids) ==
    IF kids = <<>> THEN <<>>
    ELSE (IF Head(kids).lastViewedAt = None THEN <<>>
          ELSE <<[library_key |-> IntToStr(Head(kids).ratingKey),
                  viewed_at |-> [t |-> Head(kids).lastViewedAt[1].t,
                                 aware |-> TRUE]]>>)
         \o ViewedEntries(Tail(kids))

\* get_history was called on an initialized client whose remote history call
\* raises
HistoryCallFailed ==
    /\ last.op = "get_history"
    /\ admin_client # NoHandle
    /\ plex.history.raises

\* C24: a failing remote history call is fail-open: fetch_history returns an
\* empty list instead of raising, and get_history then returns exactly the
\* derived entries of the children that have a non-null last-viewed timestamp.
C24_HistoryFailOpen ==
    HistoryCallFailed =>
        /\ last.error = ""
        /\ last.plex_history = <<>>
        /\ last.result = ViewedEntries(Kids)

\* a show with a viewed and an unviewed episode while the remote call raises
C24_Witness ==
    /\ HistoryCallFailed
    /\ plex.item.kind = "show"
    /\ Len(Kids) = 2
    /\ Kids[1].lastViewedAt = None
    /\ Kids[2].lastViewedAt # None
    /\ Len(last.result) = 1

----------------------------------------------------------------------------
(* Two callers of is_on_continue_watching on one section *)

\* the section both callers ask about, and the item
RaceSection == {1}
RaceItems == {1}

\* what section.continueWatching() does for a caller
RaceOutcomes ==
    {[items |-> <<None, Some(1)>>, raises |-> FALSE],
     [items |-> <<Some(2)>>, raises |-> FALSE],
     [items |-> <<Some(1)>>, raises |-> TRUE]}

NextRace ==
    \/ DoInitialize({TheListing}, {Some(1)})
    \/ Tick
    \/ \E r \in Readers, section \in RaceSection, item \in RaceItems :
          BeginContinue(r, section, item)
    \/ \E r \in Readers, out \in RaceOutcomes : FetchContinue(r, out)
    \/ \E r \in Readers : StoreContinue(r)
    \/ \E r \in Readers : ReturnContinue(r)

SpecRace == Init /\ [][NextRace]_vars

\* the complete key set of what a remote call yielded
FetchedKeys(out) ==
    IF out.raises THEN {}
    ELSE {IntToStr(out.items[i][1]) :
             i \in {j \in DOMAIN out.items : out.items[j] # None}}

\* the cache holds an entry for the section that has not expired
FreshEntry(section) ==
    /\ IntToStr(section) \in DOMAIN continue_cache
    /\ continue_cache[IntToStr(section)].expires_at > clock

\* C25: under every interleaving of two is_on_continue_watching calls for one
\* section that both meet an absent or stale entry, each call makes its own
\* refresh with one remote call, the cache holds exactly the complete key set
\* of the latest write (no merge, no partly built set), and each call's result
\* is the membership of its item in the key set that call itself fetched.
C25_RaceRefresh ==
    /\ [][\A r \in Readers, s \in RaceSection :
             /\ user_client # NoHandle
             /\ readers[r].pc = "idle"
             /\ ~FreshEntry(s)
             /\ readers'[r] # readers[r]
             /\ readers'[r].section = s
             => readers'[r].pc = "fetching"]_vars
    /\ [][\A r \in Readers :
             readers[r].pc = "idle" /\ readers'[r].pc # "idle"
             => ~FreshEntry(readers'[r].section)]_vars
    /\ [](last.op = "return" /\ last.calls = 0 =>
            /\ FreshEntry(last.section)
            /\ last.result = (IntToStr(last.item)
                                 \in continue_cache[IntToStr(last.section)].keys))
    /\ [](last.op = "return" /\ last.calls = 1 =>
            last.result = (IntToStr(last.item) \in FetchedKeys(last.out)))
    /\ [](last.op = "store" =>
            continue_cache[IntToStr(readers[last.reader].section)] =
               [keys |-> FetchedKeys(readers[last.reader].out),
                expires_at |-> clock + 300])
    /\ [][continue_cache' # continue_cache =>
             last'.op = "store" \/ last'.op = "initialize"]_vars

\* the first caller returns while the second, which wrote later and fetched
\* another key set, has not returned yet: the result of the first is not the
\* membership in what the cache holds
C25_Witness ==
    /\ last.op = "return"
    /\ last.reader = 1
    /\ last.calls = 1
    /\ readers[2].pc = "returning"
    /\ last.section = readers[2].section
    /\ continue_cache[IntToStr(last.section)] = readers[2].cache_entry
    /\ last.result # (IntToStr(last.item) \in readers[2].cache_entry.keys)

----------------------------------------------------------------------------
(* The ordering cache while time passes *)

NextOrderingTime ==
    \/ DoInitialize({TheListing}, {Some(1)})
    \/ Close
    \/ ClearCache
    \/ Tick
    \/ \E show \in Shows, raises \in BOOLEAN : GetOrdering(show, raises)
    \/ \E s1 \in OrderingSettings : SectionSettingChanged(1, s1)

SpecOrderingTime == InitOrdering /\ [][NextOrderingTime]_vars


\* a lookup that returned and was decided by the section, not by the show
SectionLookup == OrderingLookup /\ ~HasOverride(last.show)

----------------------------------------------------------------------------
(* The lifecycle of the client: initialize, close and the guarded operations *)

InitLifecycle ==
    /\ cfg_user \in {None, Some(<<"a">>), Some(<<"b">>)}
    /\ NoFilters
    /\ plex = [account |-> TheAccount, users |-> TheUsers, switch_fails |-> FALSE,
               item |-> TheItem, history |-> TheHistory,
               settings |-> [s \in SectionIds |-> Some("aired")]]
    /\ cfg_url = TheUrl
    /\ ClientInit

NextLifecycle ==
    \/ DoInitialize({TheListing}, {Some(1)})
    \/ Close
    \/ AccountRenamed
    \/ \E name \in Accessors : Access(name)
    \/ IsOnContinueWatching(1, 1, [items |-> <<Some(2), Some(1)>>, raises |-> FALSE], 0)
    \/ IsOnWatchlist(Some("g1"), [items |-> <<Some("g1"), None>>, raises |-> FALSE], 0)
    \/ GetHistory
    \/ GetOrdering([showOrdering |-> None, librarySectionID |-> 1], FALSE)

SpecLifecycle == InitLifecycle /\ [][NextLifecycle]_vars

\* an initialize has succeeded and no close has followed it
Live == admin_client # NoHandle

GuardedOps ==
    Accessors \cup {"is_on_continue_watching", "is_on_watchlist", "get_history"}

----------------------------------------------------------------------------
(* Claims about a failed initialize *)

\* the six identity fields of the client
IdentityFields ==
    <<admin_client, user_client, account, user_id, display_name, is_admin>>

AllSet ==
    /\ admin_client # NoHandle
    /\ user_client # NoHandle
    /\ account # None
    /\ user_id # None
    /\ display_name # None
    /\ is_admin # None

NoneSet == IdentityFields = <<NoHandle, NoHandle, None, None, None, None>>

\* C28: when identity resolution raises during initialize(), the call changes
\* nothing: the six identity fields are replaced together and only after the
\* resolution succeeded, and on failure the section list, the on-deck window
\* and all caches keep the values they had before the call.
C28_FailedInitializeFrame ==
    /\ [](AllSet \/ NoneSet)
    /\ [][InitializeFailed' =>
             /\ IdentityFields' = IdentityFields
             /\ sections' = sections
             /\ on_deck_window' = on_deck_window
             /\ continue_cache' = continue_cache
             /\ ordering_cache' = ordering_cache
             /\ watchlist_cache' = watchlist_cache]_vars
    /\ [][IdentityFields' # IdentityFields =>
             \/ last'.op = "initialize" /\ last'.ok /\ AllSet'
             \/ last'.op = "close" /\ NoneSet']_vars

\* an initialize fails on a client that holds an identity, sections and an
\* entry in each cache
C28_Witness ==
    /\ InitializeFailed
    /\ AllSet
    /\ sections # <<>>
    /\ on_deck_window # None
    /\ continue_cache # EmptyCache
    /\ ordering_cache # EmptyCache
    /\ watchlist_cache # None

----------------------------------------------------------------------------
(* Claims about cached failures *)

EmptyUntil(t) == [keys |-> {}, expires_at |-> t]

\* the entry the read met was the empty key set and had not expired
MetFreshEmpty == last.pre # None /\ last.pre[1].keys = {} /\ last.pre[1].expires_at > last.now

\* C29: failures are cached negatively: a continue-watching or watchlist
\* refresh that fails stores the empty key set with the 300-second expiry, a
\* read that meets that entry before it expires answers False without a call
\* to the source whatever the source would now return, and a call is made only
\* when the entry has expired or has been removed.
C29_NegativeCaching ==
    /\ [](ContinueRead /\ last.source_raised =>
            /\ continue_cache[IntToStr(last.section)] = EmptyUntil(clock + 300)
            /\ ~last.result)
    /\ [](WatchlistRead /\ last.source_raised =>
            /\ watchlist_cache = Some(EmptyUntil(clock + 300))
            /\ ~last.result)
    /\ []((ContinueRead \/ WatchlistRead) /\ MetFreshEmpty =>
            last.calls = 0 /\ ~last.result)
    /\ []((ContinueRead \/ WatchlistRead) /\ last.calls = 1 =>
            last.pre = None \/ last.pre[1].expires_at <= last.now)
    /\ [][\A k \in DOMAIN continue_cache :
             \/ k \in DOMAIN continue_cache' /\ continue_cache'[k] = continue_cache[k]
             \/ last'.op \in {"clear_cache", "close", "initialize"}
             \/ /\ last'.op = "is_on_continue_watching"
                /\ IntToStr(last'.section) = k
                /\ continue_cache[k].expires_at <= last'.now]_vars
    /\ [][watchlist_cache # None =>
             \/ watchlist_cache' = watchlist_cache
             \/ /\ last'.op = "is_on_watchlist"
                /\ watchlist_cache[1].expires_at <= last'.now]_vars

\* a read one step of the clock after a failed refresh is answered from the
\* empty entry
C29_Witness ==
    /\ ContinueRead
    /\ MetFreshEmpty
    /\ last.now = last.pre[1].expires_at - 300 + Step
    /\ last.calls = 0
    /\ ~last.result
    /\ watchlist_cache # None
    /\ watchlist_cache[1].keys = {}

----------------------------------------------------------------------------
(* Claims about the login of the selected user *)

\* identity resolution selected a managed user
UserSelected == last.op = "initialize" /\ last.target_user # None

\* C30: whenever identity resolution selects a managed user, that user has at
\* least one non-empty field among username, email and title, so the login
\* identifier is non-empty at the switch step and the "no usable login
\* identifier" failure is never raised.
C30_LoginNeverEmpty ==
    /\ last.op = "initialize" => last.error # "IdentitySwitchUnavailable"
    /\ UserSelected =>
          /\ \/ NonEmpty(last.target_user[1].username)
             \/ NonEmpty(last.target_user[1].email)
             \/ NonEmpty(last.target_user[1].title)
          /\ last.ok => user_client.kind = "user" /\ user_client.login # <<>>
          /\ last.error = "IdentitySwitchFailed" => NonEmpty(last.err_arg)

\* the user the request selects comes after one without any field and has an
\* empty username: the login is its title
C30_Witness ==
    /\ UserSelected
    /\ last.ok
    /\ Len(plex.users) = 2
    /\ ~NonEmpty(plex.users[1].username)
    /\ ~NonEmpty(plex.users[1].email)
    /\ ~NonEmpty(plex.users[1].title)
    /\ last.target_user[1] = plex.users[2]
    /\ last.target_user[1].username = Some(<<>>)
    /\ user_client.login = last.target_user[1].title[1]

====
